---- MODULE Spec2Model ----
(***************************************************************************)
(* Wayne County auction tracker: the parallel scrape coordinator and its   *)
(* worker threads (parallel-scraper.js, worker-scraper.js), the bid        *)
(* tracker (bid-tracker.js) and the update scheduler (update-scheduler.js).*)
(*                                                                         *)
(* The specifications of the module:                                       *)
(*   Spec        one ParallelAuctionScraper instance, its scrapeRange      *)
(*               calls and the worker threads of each call;                *)
(*   WorkerSpec  one worker thread (runWorker) over its sub-range;         *)
(*   PartSpec    the split of a range into sub-ranges by scrapeRange;      *)
(*   TrackerSpec one BidTracker and its recordSnapshot passes;             *)
(*   SchedSpec   one UpdateScheduler process (startMonitoring), its        *)
(*               recurring jobs and update cycles; SchedFairSpec adds the  *)
(*               fairness the timers and the event loop give.              *)
(*   TrackerIoSpec one BidTracker whose file writes may fail, with         *)
(*               cleanOldSnapshots;                                        *)
(*   ServerSpec  the dashboard server (fast-server.js, server.js): its     *)
(*               background scrape runs and the scrape status;             *)
(*   PrioSpec    one urgency classification (getUpdatePriority);           *)
(*   JobSpec     the recurring jobs of one UpdateScheduler: scheduleJob,   *)
(*               the timers, the cycles they start and stopAllJobs;        *)
(*   ScoreSpec   one call of calculateCompetitionScore;                    *)
(*   NormSpec    the numeric fields and hasBids computed from the raw      *)
(*               texts of a detail page (runWorker, parseCurrency);        *)
(*   SessSpec    the login of one ParallelAuctionScraper and the session   *)
(*               state handed to its workers;                              *)
(*   TrackerBidSpec one BidTracker over a listing whose first bid may be   *)
(*               its minimum bid;                                          *)
(*   PaceSpec    the pacing delay of one worker thread over a sub-range    *)
(*               long enough to hold a tenth ID;                           *)
(*   ServerRaceSpec fast-server.js with two background runs;               *)
(*   TimerSpec   the timers of one UpdateScheduler over repeated           *)
(*               scheduleUpdates and stopAllJobs calls.                    *)
(***************************************************************************)
EXTENDS Integers, Sequences, FiniteSets, TLC

\* ------------------------------------------------------------------ bounds
MaxWorkers == 2
MaxId == 2
MaxRuns == 2

Null == "null"

Min(a, b) == IF a <= b THEN a ELSE b

\* Math.ceil(a / b) for a >= 0, b >= 1
Ceil(a, b) == IF a % b = 0 THEN a \div b ELSE (a \div b) + 1

RECURSIVE SumOver(_, _)
SumOver(f, S) ==
    IF S = {} THEN 0
    ELSE LET x == CHOOSE y \in S : TRUE IN f[x] + SumOver(f, S \ {x})

RECURSIVE SelectCount(_, _)
SelectCount(s, m) ==
    IF s = <<>> THEN 0
    ELSE (IF Head(s) = m THEN 1 ELSE 0) + SelectCount(Tail(s), m)

\* ================================================================ scraper
VARIABLES
    workerCount,    \* this.workerCount of the scraper instance
    progress,       \* this.progress: total, completed, workersProgress
    results,        \* the list the current scrapeRange call returned (this.results)
    srState,        \* the scrapeRange promise: idle, running, returned, failed
    range,          \* <<startId, endId>> of the current scrapeRange call
    runs,           \* number of scrapeRange calls made on the instance
    jobs,           \* workerId -> [startId, endId] of the workers launched by the call
    wpc,            \* worker thread: none, running, exited, crashed
    nextId,         \* the loop variable id of each worker
    port,           \* messages posted by a worker and not yet handled by the coordinator
    errEvent,       \* a worker 'error' event is pending
    exitCode,       \* <<code>> while the exit event of a terminated worker is pending
    promise,        \* launchWorker's promise: none, pending, resolved, rejected
    workerResults,  \* the workerResults buffer of each launchWorker call
    sent,           \* history: every message the worker posted during the call
    handled,        \* history: progress messages of the worker handled by the coordinator
    fault,          \* history: the worker failed as a whole (outside the per-ID try)
    thrown          \* history: the IDs of the worker whose iteration threw

\* ---- one worker thread on its own (runWorker), with the pages it saw
VARIABLES
    wkJob,          \* workerData: [startId, endId]
    wkId,           \* the loop variable id
    wkPc,           \* running, exited, crashed
    wkOut,          \* every message posted to parentPort, in order
    wkPages         \* history: the page shown for startId, startId + 1, ...

\* ---- the partition of scrapeRange as a function of its inputs
VARIABLES
    pIn,            \* [startId, endId, workerCount]
    pOut            \* the sub-ranges launched, <<>> before the call

\* ---- the bid tracker (BidTracker) and the clock it reads
VARIABLES
    now,                \* the clock (Date.now()), in minutes
    bidHistory,         \* this.bidHistory: auctionId -> [history, metrics]
    currentProperties,  \* this.currentProperties: auctionId -> listing
    historyFile,        \* content of bid-history.json, <<>> when there is none
    snapshotFiles,      \* the snapshot-<time>.json files of the snapshots directory
    btCalls,            \* history: number of recordSnapshot calls made
    btResult,           \* what the last recordSnapshot call returned
    btProps,            \* history: the listings of the last recordSnapshot call
    btPrevProps,        \* history: the listings of the call before it
    btPrevHistory       \* history: this.bidHistory before the last call

\* ---- the update scheduler (UpdateScheduler), the site and the data directory
VARIABLES
    schedPc,            \* where startMonitoring stands
    siteBids,           \* the bid the auction site shows for each listing
    propertiesFile,     \* data/properties.json: [exists, listings]
    activeJobs,         \* this.activeJobs: job id -> time its timer is next due
    cycles,             \* the update cycles in flight
    started,            \* number of update cycles started
    updateHistory,      \* this.updateHistory
    lastFullUpdate,     \* this.lastFullUpdate, <<>> for null
    scheduleFile,       \* update-schedule.json
    ingest,             \* history: the cycle of the last ingestion and what its scrape saved
    verdicts,           \* history: for each entry of updateHistory, the cycle it closes
    priorityGroups      \* what scheduleUpdates returned: listing -> priority, <<>> before

\* ---- the dashboard server (fast-server.js, server.js) around one scraper per run
VARIABLES
    svKind,             \* which server runs: "fast" (fast-server.js) or "basic" (server.js)
    scrapingStatus,     \* the object /api/status returns
    svRun,              \* the background scrape functions started: run -> where it stands
    svStarted,          \* number of runs started
    svLast              \* history: how the last run to end since the status was reset ended

\* ---- one urgency classification (getUpdatePriority) of a closing time at a time
VARIABLES
    prNow,              \* the clock read by the call, in minutes
    prCloses,           \* the closing time passed, <<>> when it does not parse
    prResult            \* the priority returned, <<>> before the call

\* ---- the job table of the update scheduler and the cycles its timers start
VARIABLES
    jbNow,              \* the clock, in minutes
    jbFile,             \* the closing times of the listings of properties.json
    jbJobs,             \* this.activeJobs: priority -> [interval, type, due]
    jbCycles,           \* the update cycles in flight
    jbStarted,          \* number of update cycles started by a timer
    jbPc,               \* scheduling, monitoring, stopped (stopAllJobs), exited (SIGINT)
    jbDone,             \* history: the update cycles that have ended
    jbStop              \* history: what was started and in flight when stopAllJobs ran

\* ---- one call of calculateCompetitionScore on a listing's history entry
VARIABLES
    scHistory,          \* propertyHistory.history, as far as the call reads it
    scMetrics,          \* propertyHistory.metrics, as far as the call reads it
    scScore             \* the score returned, <<>> before the call

\* ---- the numeric fields and hasBids computed from the raw texts of one detail page
VARIABLES
    nmKind,             \* "worker" (runWorker), "scraper" (scrapePropertyById), "call"
    nmRaw,              \* the texts read from the page: currentBid, minimumBid, sevValue
    nmOut               \* the fields computed, <<>> before

\* ---- the login of one ParallelAuctionScraper and the session its workers are given
VARIABLES
    ssPc,               \* where the run of fastScrapeProperties stands
    ssValid,            \* whether the site accepts the credentials
    ssWorkerCount,      \* this.workerCount
    ssMaster,           \* the cookies of the master browser's context
    ssCookies,          \* this.cookies, <<>> for null
    ssStorageState,     \* this.storageState, <<>> for null
    ssError,            \* the error initialize() rejected with, <<>> if none
    ssAttempts,         \* history: number of times the credentials were submitted
    ssProbe,            \* history: what the probe of the detail page found
    ssWorkers,          \* the workers launched: id -> [seed, pc, context, steps]
    ssExported          \* history: the session state as loginAndSaveSession saved it

\* ---- the pacing of one worker thread over a long sub-range
VARIABLES
    pzJob,              \* workerData: [startId, endId]
    pzId,               \* the loop variable `id`
    pzPc,               \* "running" | "exited"
    pzLast              \* history: the iteration just ended: [id, record, paused]

\* ---- the setInterval timers of one UpdateScheduler
VARIABLES
    tmJobs,             \* this.activeJobs: priority -> the timer of its job
    tmTimers,           \* the timers set and not cleared: [tier, call]
    tmCalls,            \* history: number of scheduleUpdates calls so far
    tmStops             \* history: number of stopAllJobs calls so far

scrapeVars == <<workerCount, progress, results, srState, range, runs, jobs, wpc, nextId,
                port, errEvent, exitCode, promise, workerResults, sent, handled, fault, thrown>>

wkVars == <<wkJob, wkId, wkPc, wkOut, wkPages>>

partVars == <<pIn, pOut>>

schedVars == <<schedPc, siteBids, propertiesFile, activeJobs, cycles, started,
               updateHistory, lastFullUpdate, scheduleFile, ingest, verdicts, priorityGroups>>

trackerVars == <<now, bidHistory, currentProperties, historyFile, snapshotFiles,
                 btCalls, btResult, btProps, btPrevProps, btPrevHistory>>

serverVars == <<svKind, scrapingStatus, svRun, svStarted, svLast>>

prioVars == <<prNow, prCloses, prResult>>

scoreVars == <<scHistory, scMetrics, scScore>>

normVars == <<nmKind, nmRaw, nmOut>>

sessVars == <<ssPc, ssValid, ssWorkerCount, ssMaster, ssCookies, ssStorageState, ssError,
              ssAttempts, ssProbe, ssWorkers, ssExported>>

pzVars == <<pzJob, pzId, pzPc, pzLast>>

tmVars == <<tmJobs, tmTimers, tmCalls, tmStops>>

jobVars == <<jbNow, jbFile, jbJobs, jbCycles, jbStarted, jbPc, jbDone, jbStop>>

nonScrapeVars == <<wkVars, partVars, trackerVars, schedVars, serverVars, prioVars, jobVars, scoreVars, normVars, sessVars, pzVars, tmVars>>

vars == <<scrapeVars, wkVars, partVars, trackerVars, schedVars, serverVars, prioVars, jobVars, scoreVars, normVars, sessVars, pzVars, tmVars>>

WorkerIds == 0..(MaxWorkers - 1)
Ids == 1..MaxId

\* ---- the detail page of an ID, as the worker sees it
Statuses == {"Active", "Removed from Auction", "REMOVED"}

\* String.prototype.toLowerCase on the status texts of the model
ToLowerCase(s) ==
    CASE s = "Active" -> "active"
      [] s = "Removed from Auction" -> "removed from auction"
      [] s = "REMOVED" -> "removed"
      [] OTHER -> s

\* String.prototype.includes('removed') on lower-cased status texts
IncludesRemoved(s) == s \in {"removed from auction", "removed"}

Pages ==
    {[nav |-> "timeout", marker |-> FALSE, hasData |-> FALSE, status |-> Null],
     [nav |-> "ok", marker |-> TRUE, hasData |-> FALSE, status |-> Null],
     [nav |-> "ok", marker |-> FALSE, hasData |-> FALSE, status |-> Null],
     [nav |-> "ok", marker |-> FALSE, hasData |-> TRUE, status |-> "Removed from Auction"],
     [nav |-> "ok", marker |-> FALSE, hasData |-> TRUE, status |-> "REMOVED"],
     [nav |-> "ok", marker |-> FALSE, hasData |-> TRUE, status |-> "Active"]}

\* mutant: the status test without the lower-casing
IsRemovedExact(page) ==
    /\ page.status # Null
    /\ page.status = "Removed from Auction"

IsRemoved(page) ==
    /\ page.status # Null
    /\ \/ IncludesRemoved(ToLowerCase(page.status))
       \/ page.status = "Removed from Auction"

\* ---- messages of the worker protocol
Msg(t, i, n) == [type |-> t, id |-> i, total |-> n]
StatusMsg == Msg("status", 0, 0)
CompleteMsg == Msg("complete", 0, 0)
ProgressMsg(i, n) == Msg("progress", i, n)
ResultMsg(i) == Msg("result", i, 0)
ErrorMsg(i) == Msg("error", i, 0)
\* the error message of runWorker's outer catch names no ID
FatalMsg == Msg("error", 0, 0)

\* mutant: Math.floor in place of Math.ceil
RangePerWorkerFloor(startId, endId, wc) ==
    IF (endId - startId + 1) \div wc = 0 THEN 1 ELSE (endId - startId + 1) \div wc

\* ---- partition of [startId, endId]
RangePerWorker(startId, endId, wc) == Ceil(endId - startId + 1, wc)

WorkerStart(startId, endId, wc, i) == startId + i * RangePerWorker(startId, endId, wc)

WorkerEnd(startId, endId, wc, i) ==
    Min(WorkerStart(startId, endId, wc, i) + RangePerWorker(startId, endId, wc) - 1, endId)

\* a launch loop without the break
LaunchedAll(startId, endId, wc) == 0..(wc - 1)

\* the loop runs i = 0, 1, ... and breaks at the first i whose workerStart > endId
Launched(startId, endId, wc) ==
    {i \in 0..(wc - 1) : \A j \in 0..i : WorkerStart(startId, endId, wc, j) <= endId}

Partition(startId, endId, wc) ==
    [i \in Launched(startId, endId, wc) |->
        [startId |-> WorkerStart(startId, endId, wc, i),
         endId |-> WorkerEnd(startId, endId, wc, i)]]

JobLen(w) == jobs[w].endId - jobs[w].startId + 1

\* an iteration whose catch posts the error and no progress
ScrapeOneSilentError(id, page, total) ==
    IF page.nav = "timeout" THEN <<ErrorMsg(id)>>
    ELSE IF page.marker THEN <<ProgressMsg(id, total)>>
    ELSE IF ~page.hasData THEN <<ProgressMsg(id, total)>>
    ELSE IF IsRemoved(page) THEN <<ProgressMsg(id, total)>>
    ELSE <<ResultMsg(id), ProgressMsg(id, total)>>

\* an iteration that posts the progress of a record before the record
ScrapeOneProgressFirst(id, page, total) ==
    IF page.nav = "timeout" THEN <<ErrorMsg(id), ProgressMsg(id, total)>>
    ELSE IF page.marker THEN <<ProgressMsg(id, total)>>
    ELSE IF ~page.hasData THEN <<ProgressMsg(id, total)>>
    ELSE IF IsRemoved(page) THEN <<ProgressMsg(id, total)>>
    ELSE <<ProgressMsg(id, total), ResultMsg(id)>>

\* ---- one iteration of the worker's for loop: the messages posted for `id`
ScrapeOne(id, page, total) ==
    IF page.nav = "timeout" THEN <<ErrorMsg(id), ProgressMsg(id, total)>>
    ELSE IF page.marker THEN <<ProgressMsg(id, total)>>
    ELSE IF ~page.hasData THEN <<ProgressMsg(id, total)>>
    ELSE IF IsRemoved(page) THEN <<ProgressMsg(id, total)>>
    ELSE <<ResultMsg(id), ProgressMsg(id, total)>>

\* mutant: the per-ID catch rethrows, which ends the thread through process.exit(1)
AfterIdErrorRethrow(w) == [pc |-> "crashed", id |-> nextId[w]]

\* what the catch inside the loop does to the worker: it goes on with the next ID
AfterIdError(w) == [pc |-> "running", id |-> nextId[w] + 1]

AfterId(w, page) ==
    IF page.nav = "timeout" THEN AfterIdError(w)
    ELSE [pc |-> "running", id |-> nextId[w] + 1]

\* ---- coordinator: the progress handler of launchWorker
\* workersProgress[workerId].current = msg.current - startId + 1
CurrentOf(w, msg) == msg.id - jobs[w].startId + 1

\* Object.values(workersProgress).reduce((sum, w) => sum + w.current, 0)
CompletedOf(wp) == SumOver([k \in DOMAIN wp |-> wp[k].current], DOMAIN wp)

\* mutant: completed takes the reporting worker's counter instead of the sum
OnProgressLast(w, msg) ==
    LET wp == [progress.workersProgress EXCEPT ![w].current = msg.id - jobs[w].startId + 1]
    IN [progress EXCEPT !.workersProgress = wp, !.completed = wp[w].current]

OnProgress(w, msg) ==
    LET wp == [progress.workersProgress EXCEPT ![w].current = CurrentOf(w, msg)]
    IN [progress EXCEPT !.workersProgress = wp, !.completed = CompletedOf(wp)]

\* ---- coordinator: settling of the launchWorker promises and of Promise.all
\* mutant: the exit handler resolves whatever the code
SettleOnExitAnyCode(code) == "resolved"

\* the exit handler: reject on a non-zero code, resolve otherwise
SettleOnExit(code) == IF code # 0 THEN "rejected" ELSE "resolved"

\* a settled promise stays as it is
Settle(old, new) == IF old = "pending" THEN new ELSE old

\* a flattening that takes the buffers from the highest worker index down
RECURSIVE FlatReverse(_, _)
FlatReverse(bufs, i) ==
    IF i >= MaxWorkers THEN <<>>
    ELSE FlatReverse(bufs, i + 1) \o (IF i \in DOMAIN jobs THEN bufs[i] ELSE <<>>)

\* workerResults.flat() in worker-index order
RECURSIVE Flat(_, _)
Flat(bufs, i) ==
    IF i >= MaxWorkers THEN <<>>
    ELSE (IF i \in DOMAIN jobs THEN bufs[i] ELSE <<>>) \o Flat(bufs, i + 1)

\* Promise.all over the launched workers, given their promises
AwaitAll(pr) ==
    IF srState # "running" THEN srState
    ELSE IF \E w \in DOMAIN jobs : pr[w] = "rejected" THEN "failed"
    ELSE IF \A w \in DOMAIN jobs : pr[w] = "resolved" THEN "returned"
    ELSE "running"

ScrapeInit ==
    /\ workerCount \in 1..MaxWorkers
    /\ progress = [total |-> 0, completed |-> 0, workersProgress |-> <<>>]
    /\ results = <<>>
    /\ srState = "idle"
    /\ range = <<0, 0>>
    /\ runs = 0
    /\ jobs = <<>>
    /\ wpc = [w \in WorkerIds |-> "none"]
    /\ nextId = [w \in WorkerIds |-> 0]
    /\ port = [w \in WorkerIds |-> <<>>]
    /\ errEvent = [w \in WorkerIds |-> FALSE]
    /\ exitCode = [w \in WorkerIds |-> <<>>]
    /\ promise = [w \in WorkerIds |-> "none"]
    /\ workerResults = [w \in WorkerIds |-> <<>>]
    /\ sent = [w \in WorkerIds |-> <<>>]
    /\ handled = [w \in WorkerIds |-> 0]
    /\ fault = [w \in WorkerIds |-> FALSE]
    /\ thrown = [w \in WorkerIds |-> {}]

\* every worker of the previous call has terminated and its events were handled
Quiescent ==
    \A w \in WorkerIds :
        \/ wpc[w] = "none"
        \/ /\ wpc[w] \in {"exited", "crashed"}
           /\ port[w] = <<>>
           /\ ~errEvent[w]
           /\ exitCode[w] = <<>>

\* scrapeRange(startId, endId) up to the await of Promise.all: every launchWorker
\* call runs its executor synchronously. A later call on the same instance is made
\* once the earlier call has settled and its workers are gone.
ScrapeRange(startId, endId) ==
    /\ srState \in {"idle", "returned", "failed"}
    /\ Quiescent
    /\ runs < MaxRuns
    /\ startId <= endId
    /\ LET part == Partition(startId, endId, workerCount)
           L == DOMAIN part
           fresh == [w \in L |-> [current |-> 0, total |-> part[w].endId - part[w].startId + 1]]
           old == progress.workersProgress
       IN /\ jobs' = part
          /\ progress' = [total |-> endId - startId + 1,
                          completed |-> 0,
                          workersProgress |->
                              [k \in (DOMAIN old) \cup L |-> IF k \in L THEN fresh[k] ELSE old[k]]]
          /\ wpc' = [w \in WorkerIds |-> IF w \in L THEN "running" ELSE "none"]
          /\ nextId' = [w \in WorkerIds |-> IF w \in L THEN part[w].startId ELSE 0]
          /\ promise' = [w \in WorkerIds |-> IF w \in L THEN "pending" ELSE "none"]
    /\ range' = <<startId, endId>>
    /\ runs' = runs + 1
    /\ srState' = "running"
    /\ port' = [w \in WorkerIds |-> <<>>]
    /\ errEvent' = [w \in WorkerIds |-> FALSE]
    /\ exitCode' = [w \in WorkerIds |-> <<>>]
    /\ workerResults' = [w \in WorkerIds |-> <<>>]
    /\ sent' = [w \in WorkerIds |-> <<>>]
    /\ handled' = [w \in WorkerIds |-> 0]
    /\ fault' = [w \in WorkerIds |-> FALSE]
    /\ thrown' = [w \in WorkerIds |-> {}]
    /\ results' = <<>>
    /\ UNCHANGED <<workerCount, nonScrapeVars>>

\* parentPort.postMessage. The handler of launchWorker changes state on 'progress' and
\* 'result' only ('status' is ignored, 'error' and 'complete' are logged), so only
\* these wait in the port; `sent` records every message but the initial 'status'.
HasEffect(m) == m.type \in {"progress", "result"}

Post(w, msgs) ==
    /\ port' = [port EXCEPT ![w] = @ \o SelectSeq(msgs, HasEffect)]
    /\ sent' = [sent EXCEPT ![w] = @ \o msgs]

\* runWorker: one iteration of the for loop
WorkerScrapeId(w, page) ==
    /\ wpc[w] = "running"
    /\ nextId[w] <= jobs[w].endId
    /\ Post(w, ScrapeOne(nextId[w], page, JobLen(w)))
    /\ wpc' = [wpc EXCEPT ![w] = AfterId(w, page).pc]
    /\ nextId' = [nextId EXCEPT ![w] = AfterId(w, page).id]
    /\ exitCode' = [exitCode EXCEPT ![w] = IF AfterId(w, page).pc = "crashed" THEN <<1>> ELSE @]
    /\ thrown' = [thrown EXCEPT ![w] = IF page.nav = "timeout" THEN @ \cup {nextId[w]} ELSE @]
    /\ UNCHANGED <<workerCount, progress, results, srState, range, runs, jobs,
                   errEvent, promise, workerResults, handled, fault, nonScrapeVars>>

\* runWorker: the loop is over, 'complete' is posted, context and browser are closed
\* and the thread ends with exit code 0
WorkerComplete(w) ==
    /\ wpc[w] = "running"
    /\ nextId[w] > jobs[w].endId
    /\ Post(w, <<CompleteMsg>>)
    /\ wpc' = [wpc EXCEPT ![w] = "exited"]
    /\ exitCode' = [exitCode EXCEPT ![w] = <<0>>]
    /\ UNCHANGED <<workerCount, progress, results, srState, range, runs, jobs, nextId,
                   errEvent, promise, workerResults, handled, fault, thrown, nonScrapeVars>>

\* the worker fails as a whole: an exception outside the per-ID try (browser launch,
\* context, close) reaches runWorker().catch and process.exit(1), or the thread dies
\* with an uncaught error ('error' event, then 'exit'). The messages already posted
\* are still delivered: the port is drained before 'exit' is emitted.
WorkerCrash(w, uncaught) ==
    /\ wpc[w] = "running"
    /\ wpc' = [wpc EXCEPT ![w] = "crashed"]
    /\ exitCode' = [exitCode EXCEPT ![w] = <<1>>]
    /\ errEvent' = [errEvent EXCEPT ![w] = uncaught]
    /\ sent' = [sent EXCEPT ![w] = IF uncaught THEN @ ELSE Append(@, FatalMsg)]
    /\ fault' = [fault EXCEPT ![w] = TRUE]
    /\ UNCHANGED <<workerCount, progress, results, srState, range, runs, jobs, nextId,
                   port, promise, workerResults, handled, thrown, nonScrapeVars>>

\* worker.on('message')
OnMessage(w) ==
    /\ port[w] # <<>>
    /\ LET msg == Head(port[w])
       IN /\ port' = [port EXCEPT ![w] = Tail(@)]
          /\ progress' = IF msg.type = "progress" THEN OnProgress(w, msg) ELSE progress
          /\ handled' = IF msg.type = "progress" THEN [handled EXCEPT ![w] = @ + 1] ELSE handled
          /\ workerResults' = IF msg.type = "result"
                              THEN [workerResults EXCEPT ![w] = Append(@, msg.id)]
                              ELSE workerResults
    /\ UNCHANGED <<workerCount, results, srState, range, runs, jobs, wpc, nextId,
                   errEvent, exitCode, promise, sent, fault, thrown, nonScrapeVars>>

\* the continuation of scrapeRange after Promise.all
Continue(pr) ==
    /\ srState' = AwaitAll(pr)
    /\ results' = IF srState = "running" /\ AwaitAll(pr) = "returned"
                  THEN Flat(workerResults, 0) ELSE results

\* worker.on('error')
OnError(w) ==
    /\ errEvent[w]
    /\ port[w] = <<>>
    /\ errEvent' = [errEvent EXCEPT ![w] = FALSE]
    /\ promise' = [promise EXCEPT ![w] = Settle(@, "rejected")]
    /\ Continue(promise')
    /\ UNCHANGED <<workerCount, progress, range, runs, jobs, wpc, nextId, port,
                   exitCode, workerResults, sent, handled, fault, thrown, nonScrapeVars>>

\* worker.on('exit')
OnExit(w) ==
    /\ wpc[w] \in {"exited", "crashed"}
    /\ port[w] = <<>>
    /\ ~errEvent[w]
    /\ exitCode[w] # <<>>
    /\ promise' = [promise EXCEPT ![w] = Settle(@, SettleOnExit(exitCode[w][1]))]
    /\ exitCode' = [exitCode EXCEPT ![w] = <<>>]
    /\ Continue(promise')
    /\ UNCHANGED <<workerCount, progress, range, runs, jobs, wpc, nextId, port,
                   errEvent, workerResults, sent, handled, fault, thrown, nonScrapeVars>>

ScrapeNext ==
    \/ \E s \in Ids, e \in Ids : ScrapeRange(s, e)
    \/ \E w \in WorkerIds, page \in Pages : WorkerScrapeId(w, page)
    \/ \E w \in WorkerIds : WorkerComplete(w)
    \/ \E w \in WorkerIds, u \in BOOLEAN : WorkerCrash(w, u)
    \/ \E w \in WorkerIds : OnMessage(w)
    \/ \E w \in WorkerIds : OnError(w)
    \/ \E w \in WorkerIds : OnExit(w)

\* ============================================================ one worker
MaxJobLen == 3

JobStarts == {1, 9}

WkInit ==
    /\ wkJob \in {[startId |-> s, endId |-> s + n - 1] : s \in JobStarts, n \in 1..MaxJobLen}
    /\ wkId = wkJob.startId
    /\ wkPc = "running"
    /\ wkOut = <<>>
    /\ wkPages = <<>>

WkIdle ==
    /\ wkJob = [startId |-> 1, endId |-> 1]
    /\ wkId = 1
    /\ wkPc = "exited"
    /\ wkOut = <<>>
    /\ wkPages = <<>>

\* runWorker: one iteration of the for loop
RunWorkerId(page) ==
    /\ wkPc = "running"
    /\ wkId <= wkJob.endId
    /\ wkOut' = wkOut \o ScrapeOne(wkId, page, wkJob.endId - wkJob.startId + 1)
    /\ wkPages' = Append(wkPages, page)
    /\ wkId' = wkId + 1
    /\ UNCHANGED <<wkJob, wkPc, scrapeVars, partVars, serverVars, prioVars, trackerVars,
                   schedVars, jobVars, scoreVars, normVars, sessVars, pzVars, tmVars>>

\* runWorker: after the loop
RunWorkerComplete ==
    /\ wkPc = "running"
    /\ wkId > wkJob.endId
    /\ wkOut' = Append(wkOut, CompleteMsg)
    /\ wkPc' = "exited"
    /\ UNCHANGED <<wkJob, wkId, wkPages, scrapeVars, partVars, serverVars, prioVars,
                   trackerVars, schedVars, jobVars, scoreVars, normVars, sessVars, pzVars,
                   tmVars>>

\* runWorker: the outer catch (browser or context failure)
RunWorkerCrash ==
    /\ wkPc = "running"
    /\ wkOut' = Append(wkOut, FatalMsg)
    /\ wkPc' = "crashed"
    /\ UNCHANGED <<wkJob, wkId, wkPages, scrapeVars, partVars, serverVars, prioVars,
                   trackerVars, schedVars, jobVars, scoreVars, normVars, sessVars, pzVars,
                   tmVars>>

WkNext ==
    \/ \E page \in Pages : RunWorkerId(page)
    \/ RunWorkerComplete
    \/ RunWorkerCrash

\* ================================================================= pacing
\* sub-ranges of one worker long enough to hold a tenth and a twentieth ID
MaxPaceStart == 11
MaxPaceLen == 20

\* if (id % 10 === 0)
PauseEvery == 10

NoIteration == [id |-> 0, record |-> FALSE, paused |-> FALSE]

\* whether the iteration of `id` reaches the 'result' postMessage
PostsRecord(id, page) ==
    \E k \in 1..Len(ScrapeOne(id, page, 1)) : ScrapeOne(id, page, 1)[k].type = "result"

\* the delay at the end of the try block: the `continue` of the skip paths and
\* the catch leave the iteration before it
PausesAfter(id, page) == PostsRecord(id, page) /\ id % PauseEvery = 0

PzInit ==
    /\ pzJob \in {[startId |-> s, endId |-> s + n - 1] : s \in 1..MaxPaceStart, n \in 1..MaxPaceLen}
    /\ pzId = pzJob.startId
    /\ pzPc = "running"
    /\ pzLast = NoIteration

PzIdle ==
    /\ pzJob = [startId |-> 1, endId |-> 1]
    /\ pzId = 1
    /\ pzPc = "exited"
    /\ pzLast = NoIteration

\* runWorker: one iteration of the for loop, up to the navigation of the next ID
PaceId(page) ==
    /\ pzPc = "running"
    /\ pzId <= pzJob.endId
    /\ pzLast' = [id |-> pzId, record |-> PostsRecord(pzId, page),
                  paused |-> PausesAfter(pzId, page)]
    /\ pzId' = pzId + 1
    /\ UNCHANGED <<pzJob, pzPc>>
    /\ UNCHANGED <<scrapeVars, wkVars, partVars, trackerVars, schedVars, serverVars, prioVars,
                   jobVars, scoreVars, normVars, sessVars, tmVars>>

\* runWorker: the loop has ended, 'complete' is posted
PaceComplete ==
    /\ pzPc = "running"
    /\ pzId > pzJob.endId
    /\ pzPc' = "exited"
    /\ UNCHANGED <<pzJob, pzId, pzLast>>
    /\ UNCHANGED <<scrapeVars, wkVars, partVars, trackerVars, schedVars, serverVars, prioVars,
                   jobVars, scoreVars, normVars, sessVars, tmVars>>

PaceNext ==
    \/ \E page \in Pages : PaceId(page)
    \/ PaceComplete

\* ============================================================== partition
MaxRangeLen == 30
MaxCount == 10

RangeStarts == {1, 250900000}

PartInit ==
    /\ pIn \in {[startId |-> s, endId |-> s + n - 1, workerCount |-> c] :
                    s \in RangeStarts, n \in 1..MaxRangeLen, c \in 1..MaxCount}
    /\ pOut = <<>>

PartIdle ==
    /\ pIn = [startId |-> 1, endId |-> 1, workerCount |-> 1]
    /\ pOut = <<>>

\* the launch loop of scrapeRange
Split ==
    /\ pOut = <<>>
    /\ pOut' = Partition(pIn.startId, pIn.endId, pIn.workerCount)
    /\ UNCHANGED <<pIn, serverVars, prioVars, scrapeVars, wkVars, trackerVars, schedVars, jobVars,
              scoreVars, normVars, sessVars, pzVars, tmVars>>

PartNext == Split

ScrapeIdle ==
    /\ workerCount = 1
    /\ progress = [total |-> 0, completed |-> 0, workersProgress |-> <<>>]
    /\ results = <<>>
    /\ srState = "idle"
    /\ range = <<0, 0>>
    /\ runs = MaxRuns
    /\ jobs = <<>>
    /\ wpc = [w \in WorkerIds |-> "none"]
    /\ nextId = [w \in WorkerIds |-> 0]
    /\ port = [w \in WorkerIds |-> <<>>]
    /\ errEvent = [w \in WorkerIds |-> FALSE]
    /\ exitCode = [w \in WorkerIds |-> <<>>]
    /\ promise = [w \in WorkerIds |-> "none"]
    /\ workerResults = [w \in WorkerIds |-> <<>>]
    /\ sent = [w \in WorkerIds |-> <<>>]
    /\ handled = [w \in WorkerIds |-> 0]
    /\ fault = [w \in WorkerIds |-> FALSE]
    /\ thrown = [w \in WorkerIds |-> {}]

\* ============================================================ bid tracker
MaxCalls == 3
MaxTicks == 1
MaxIoCalls == 2

AuctionIds == {"a", "b"}

\* the minimum bid of the listings of the model, and the bids they may show
MinimumBid == 100

BidAmounts == {0, 150}

\* clock steps, in minutes
ClockSteps == {60, 1440}

MinutesPerHour == 60
MinutesPerDay == 1440

\* ---- JavaScript numbers that are not integers, as reduced fractions n/d
RECURSIVE Gcd(_, _)
Gcd(a, b) == IF b = 0 THEN a ELSE Gcd(b, a % b)

Abs(x) == IF x < 0 THEN 0 - x ELSE x

Rat(n, d) ==
    LET g == Gcd(Abs(n), d)
    IN IF n = 0 THEN [n |-> 0, d |-> 1] ELSE [n |-> n \div g, d |-> d \div g]

\* null and undefined
NoValue == [n |-> 0, d |-> 0]

IsValue(r) == r.d # 0

\* r >= k and r <= k for an integer k; false on null or undefined operands the way
\* the code reads them
Geq(r, k) == IsValue(r) /\ r.n >= k * r.d
Leq(r, k) == IsValue(r) /\ r.n <= k * r.d
\* r >= 1/2
GeqHalf(r) == IsValue(r) /\ 2 * r.n >= r.d

\* ---- listings as recordSnapshot reads them
\* biddingCloses is <<t>> for a closing time t (minutes of the clock), <<>> for "N/A"
Listing(cur, closes) ==
    [currentBidNumeric |-> cur, minimumBidNumeric |-> MinimumBid,
     hasBids |-> cur # 0, status |-> "Active", biddingCloses |-> closes]

\* the closing time of each listing of the site: "a" closes 61 minutes after the
\* start, "b" is a bundle listing without closing time
SiteCloses == [id \in AuctionIds |-> IF id = "a" THEN <<61>> ELSE <<>>]

\* the listing sets passed to recordSnapshot: non-empty, one listing per auctionId
ListingSets ==
    UNION {{[id \in S |-> Listing(bid[id], SiteCloses[id])] : bid \in [S -> BidAmounts]} :
              S \in (SUBSET AuctionIds) \ {{}}}

\* property.currentBidNumeric || property.minimumBidNumeric
EffectiveBid(property) ==
    IF property.currentBidNumeric # 0 THEN property.currentBidNumeric
    ELSE property.minimumBidNumeric

\* the entry created for an auctionId seen for the first time
NewEntry(property) ==
    [history |-> <<>>,
     metrics |-> [totalChanges |-> 0,
                  bidVelocity |-> Rat(0, 1),
                  lastChangeHours |-> NoValue,
                  totalIncrease |-> 0,
                  totalIncreasePercent |-> NoValue,
                  firstBid |-> EffectiveBid(property),
                  competitionScore |-> 0]]

Last(h) == h[Len(h)]

\* a change test that takes a listing without a last snapshot as unchanged
HasChangedAfterFirst(h, property) == h # <<>> /\ Last(h).currentBid # EffectiveBid(property)

\* hasChanged = !lastSnapshot || lastSnapshot.currentBid !== currentBid
HasChanged(h, property) == h = <<>> \/ Last(h).currentBid # EffectiveBid(property)

\* the snapshot pushed for a listing
Snapshot(h, property, timestamp) ==
    LET cur == EffectiveBid(property)
        withChange == h # <<>> /\ HasChanged(h, property)
    IN [timestamp |-> timestamp,
        currentBid |-> cur,
        hasBids |-> property.hasBids,
        minimumBid |-> property.minimumBidNumeric,
        status |-> property.status,
        change |-> IF withChange THEN <<cur - Last(h).currentBid>> ELSE <<>>,
        changePercent |->
            IF ~withChange THEN NoValue
            ELSE IF Last(h).currentBid > 0
                 THEN Rat((cur - Last(h).currentBid) * 100, Last(h).currentBid)
                 ELSE Rat(0, 1)]

\* a count that compares every snapshot with the first one
CountChangesSinceFirst(h) == Cardinality({i \in 2..Len(h) : h[i].currentBid # h[1].currentBid})

\* number of i in 2..Len(h) with h[i].currentBid # h[i-1].currentBid
CountChanges(h) == Cardinality({i \in 2..Len(h) : h[i].currentBid # h[i - 1].currentBid})

\* the loop that looks for the last change: lastChangeIndex starts at the last index
\* and is lowered to the highest i whose bid differs from its predecessor's
LastChangeIndex(h) ==
    LET changed == {i \in 2..Len(h) : h[i].currentBid # h[i - 1].currentBid}
    IN IF changed = {} THEN Len(h)
       ELSE CHOOSE i \in changed : \A j \in changed : j <= i

\* a calculateCompetitionScore whose spike bonus is 20 points
CompetitionScoreSpike20(h, m) ==
    LET f1 == IF m.totalChanges >= 10 THEN 30
              ELSE IF m.totalChanges >= 5 THEN 20
              ELSE IF m.totalChanges >= 3 THEN 10
              ELSE IF m.totalChanges >= 1 THEN 5 ELSE 0
        f2 == IF Geq(m.bidVelocity, 5) THEN 25
              ELSE IF Geq(m.bidVelocity, 2) THEN 20
              ELSE IF Geq(m.bidVelocity, 1) THEN 15
              ELSE IF GeqHalf(m.bidVelocity) THEN 10 ELSE 0
        f3 == IF ~IsValue(m.lastChangeHours) THEN 0
              ELSE IF Leq(m.lastChangeHours, 1) THEN 20
              ELSE IF Leq(m.lastChangeHours, 6) THEN 15
              ELSE IF Leq(m.lastChangeHours, 24) THEN 10
              ELSE IF Leq(m.lastChangeHours, 48) THEN 5 ELSE 0
        f4 == IF Geq(m.totalIncreasePercent, 50) THEN 15
              ELSE IF Geq(m.totalIncreasePercent, 25) THEN 10
              ELSE IF Geq(m.totalIncreasePercent, 10) THEN 5 ELSE 0
        f5 == IF \E i \in 2..Len(h) : Geq(h[i].changePercent, 20) THEN 20 ELSE 0
    IN Min(f1 + f2 + f3 + f4 + f5, 100)

\* calculateCompetitionScore
CompetitionScore(h, m) ==
    LET f1 == IF m.totalChanges >= 10 THEN 30
              ELSE IF m.totalChanges >= 5 THEN 20
              ELSE IF m.totalChanges >= 3 THEN 10
              ELSE IF m.totalChanges >= 1 THEN 5 ELSE 0
        f2 == IF Geq(m.bidVelocity, 5) THEN 25
              ELSE IF Geq(m.bidVelocity, 2) THEN 20
              ELSE IF Geq(m.bidVelocity, 1) THEN 15
              ELSE IF GeqHalf(m.bidVelocity) THEN 10 ELSE 0
        f3 == IF ~IsValue(m.lastChangeHours) THEN 0
              ELSE IF Leq(m.lastChangeHours, 1) THEN 20
              ELSE IF Leq(m.lastChangeHours, 6) THEN 15
              ELSE IF Leq(m.lastChangeHours, 24) THEN 10
              ELSE IF Leq(m.lastChangeHours, 48) THEN 5 ELSE 0
        f4 == IF Geq(m.totalIncreasePercent, 50) THEN 15
              ELSE IF Geq(m.totalIncreasePercent, 25) THEN 10
              ELSE IF Geq(m.totalIncreasePercent, 10) THEN 5 ELSE 0
        f5 == IF \E i \in 2..Len(h) : Geq(h[i].changePercent, 20) THEN 10 ELSE 0
    IN Min(f1 + f2 + f3 + f4 + f5, 100)

\* updateMetrics, reading the clock at `clock`
UpdateMetrics(entry, clock) ==
    LET h == entry.history
        m == entry.metrics
    IN IF Len(h) < 2 THEN entry
       ELSE
        LET changes == CountChanges(h)
            minutesDiff == Last(h).timestamp - h[1].timestamp
            idx == LastChangeIndex(h)
            firstBid == h[1].currentBid
            currentBid == Last(h).currentBid
            m1 == [m EXCEPT
                     !.totalChanges = changes,
                     !.bidVelocity = IF minutesDiff > 0
                                     THEN Rat(changes * MinutesPerDay, minutesDiff)
                                     ELSE Rat(0, 1),
                     !.lastChangeHours = IF idx > 1
                                         THEN Rat(clock - h[idx].timestamp, MinutesPerHour)
                                         ELSE @,
                     !.totalIncrease = currentBid - firstBid,
                     !.totalIncreasePercent = IF firstBid > 0
                                              THEN Rat((currentBid - firstBid) * 100, firstBid)
                                              ELSE Rat(0, 1)]
        IN [entry EXCEPT !.metrics = [m1 EXCEPT !.competitionScore = CompetitionScore(h, m1)]]

\* a recordSnapshot loop body that keeps only the newest snapshot of the listing
RecordOneReplace(hist, id, property, timestamp) ==
    LET entry == IF id \in DOMAIN hist THEN hist[id] ELSE NewEntry(property)
        pushed == [entry EXCEPT !.history = <<Snapshot(entry.history, property, timestamp)>>]
    IN UpdateMetrics(pushed, timestamp)

\* the body of the loop of recordSnapshot for one listing
RecordOne(hist, id, property, timestamp) ==
    LET entry == IF id \in DOMAIN hist THEN hist[id] ELSE NewEntry(property)
        pushed == [entry EXCEPT !.history = Append(@, Snapshot(entry.history, property, timestamp))]
    IN UpdateMetrics(pushed, timestamp)

\* the loop of recordSnapshot over the listings
RecordAll(hist, props, timestamp) ==
    [id \in (DOMAIN hist) \cup (DOMAIN props) |->
        IF id \in DOMAIN props THEN RecordOne(hist, id, props[id], timestamp) ELSE hist[id]]

NewChanges(hist, props) ==
    Cardinality({id \in DOMAIN props :
                    HasChanged(IF id \in DOMAIN hist THEN hist[id].history ELSE <<>>, props[id])})

\* ---- bid-history.json
\* JSON.stringify of a number: NaN and the infinities are written as null
JsonNumber(r) == IF r.d = 0 THEN NoValue ELSE r

\* JSON.stringify(this.bidHistory, null, 2), as the document JSON.parse reads back:
\* keys whose value is undefined are left out, null stays null
JsonStringify(hist) ==
    [id \in DOMAIN hist |->
        [history |-> [k \in 1..Len(hist[id].history) |->
                         [hist[id].history[k] EXCEPT !.changePercent = JsonNumber(@)]],
         metrics |-> [hist[id].metrics EXCEPT !.bidVelocity = JsonNumber(@),
                                              !.lastChangeHours = JsonNumber(@),
                                              !.totalIncreasePercent = JsonNumber(@)]]]

\* loadBidHistory: the parsed file, {} when there is no file
LoadBidHistory(file) == IF file = <<>> THEN <<>> ELSE file

\* the value of btResult before any call has returned
NoResult == [timestamp |-> 0 - 1, totalTracked |-> 0, newChanges |-> 0]

\* cleanOldSnapshots keeps the newest files
KeepSnapshots == 100

\* the unlink loop over snapshots.slice(0, k) of the sorted file names
RECURSIVE Unlink(_, _)
Unlink(files, k) ==
    IF k = 0 THEN files
    ELSE LET oldest == CHOOSE f \in files : \A g \in files : f <= g
         IN Unlink(files \ {oldest}, k - 1)

CleanOldSnapshots(files) ==
    IF Cardinality(files) > KeepSnapshots
    THEN Unlink(files, Cardinality(files) - KeepSnapshots)
    ELSE files

\* the snapshots directory at startup: earlier runs have filled it up to the number of
\* files cleanOldSnapshots keeps
SnapshotsAtStart == {0 - i : i \in 1..KeepSnapshots}

\* a promise of recordSnapshot rejected with the error of the write that failed
Rejected(error) == [error |-> error]

\* the promise of recordSnapshot was resolved with its return value
Returned(result) == "error" \notin DOMAIN result

\* the outcomes of the two file writes of recordSnapshot
WriteOutcomes == {"ok", "snapshotWriteFails", "historyWriteFails"}

\* a BidTracker constructed over a data directory that holds no bid-history.json
TrackerInit ==
    /\ now = 0
    /\ bidHistory = <<>>
    /\ currentProperties = <<>>
    /\ historyFile = <<>>
    /\ snapshotFiles = SnapshotsAtStart
    /\ btCalls = 0
    /\ btResult = NoResult
    /\ btProps = <<>>
    /\ btPrevProps = <<>>
    /\ btPrevHistory = <<>>

\* number of clock steps taken to reach the time t
TicksAt(t) == (t \div MinutesPerDay) + ((t % MinutesPerDay) \div MinutesPerHour)

\* the clock advances
Tick(d) ==
    /\ TicksAt(now) < MaxTicks
    /\ now' = now + d
    /\ UNCHANGED <<bidHistory, currentProperties, historyFile, snapshotFiles,
                   btCalls, btResult, btProps, btPrevProps, btPrevHistory>>
    /\ UNCHANGED <<scrapeVars, wkVars, partVars, serverVars, prioVars, schedVars, jobVars, scoreVars,
              normVars, sessVars, pzVars, tmVars>>

\* a recordSnapshot that restores this.bidHistory when a write fails
RecordSnapshotRollback(props, io) ==
    /\ btCalls < MaxCalls
    /\ bidHistory' = IF io = "ok" THEN RecordAll(bidHistory, props, now) ELSE bidHistory
    /\ snapshotFiles' = IF io = "snapshotWriteFails" THEN snapshotFiles
                        ELSE snapshotFiles \cup {now}
    /\ historyFile' = IF io = "ok" THEN JsonStringify(bidHistory') ELSE historyFile
    /\ btResult' = IF io = "ok"
                   THEN [timestamp |-> now,
                         totalTracked |-> Cardinality(DOMAIN props),
                         newChanges |-> NewChanges(bidHistory, props)]
                   ELSE Rejected(io)
    /\ btCalls' = btCalls + 1
    /\ btProps' = props
    /\ btPrevProps' = btProps
    /\ btPrevHistory' = bidHistory
    /\ UNCHANGED <<now, currentProperties>>
    /\ UNCHANGED <<scrapeVars, wkVars, partVars, serverVars, prioVars, schedVars, jobVars, scoreVars,
              normVars, sessVars, pzVars, tmVars>>

\* recordSnapshot(properties): the loop, then the write of the snapshot file, then
\* saveBidHistory; a write that fails rejects the call where it stands
RecordSnapshot(props, io) ==
    /\ btCalls < MaxCalls
    /\ bidHistory' = RecordAll(bidHistory, props, now)
    /\ snapshotFiles' = IF io = "snapshotWriteFails" THEN snapshotFiles
                        ELSE snapshotFiles \cup {now}
    /\ historyFile' = IF io = "ok" THEN JsonStringify(bidHistory') ELSE historyFile
    /\ btResult' = IF io = "ok"
                   THEN [timestamp |-> now,
                         totalTracked |-> Cardinality(DOMAIN props),
                         newChanges |-> NewChanges(bidHistory, props)]
                   ELSE Rejected(io)
    /\ btCalls' = btCalls + 1
    /\ btProps' = props
    /\ btPrevProps' = btProps
    /\ btPrevHistory' = bidHistory
    /\ UNCHANGED <<now, currentProperties>>
    /\ UNCHANGED <<scrapeVars, wkVars, partVars, serverVars, prioVars, schedVars, jobVars, scoreVars,
              normVars, sessVars, pzVars, tmVars>>

\* cleanOldSnapshots() called on the tracker when the directory holds more files than
\* it keeps (otherwise the call changes nothing)
CleanSnapshots ==
    /\ Cardinality(snapshotFiles) > KeepSnapshots
    /\ snapshotFiles' = CleanOldSnapshots(snapshotFiles)
    /\ UNCHANGED <<now, bidHistory, currentProperties, historyFile,
                   btCalls, btResult, btProps, btPrevProps, btPrevHistory>>
    /\ UNCHANGED <<scrapeVars, wkVars, partVars, serverVars, prioVars, schedVars, jobVars, scoreVars,
              normVars, sessVars, pzVars, tmVars>>

TrackerNext ==
    \/ \E d \in ClockSteps : Tick(d)
    \/ \E props \in ListingSets : RecordSnapshot(props, "ok")

\* the listing sets of a tracker that follows listing "a" alone, whose bid may be
\* absent, equal to the minimum bid, or above it
OpeningBidSets == {[id \in {"a"} |-> Listing(bid, SiteCloses["a"])] : bid \in {0, MinimumBid, 150}}

TrackerBidNext ==
    \/ \E d \in ClockSteps : Tick(d)
    \/ \E props \in OpeningBidSets : RecordSnapshot(props, "ok")

\* the tracker over its files: writes that may fail, and cleanOldSnapshots
TrackerIoNext ==
    \/ Tick(MinutesPerHour)
    \/ \E props \in ListingSets, io \in WriteOutcomes :
          btCalls < MaxIoCalls /\ RecordSnapshot(props, io)
    \/ CleanSnapshots

TrackerIdle ==
    /\ now = 0
    /\ bidHistory = <<>>
    /\ currentProperties = <<>>
    /\ historyFile = <<>>
    /\ snapshotFiles = {}
    /\ btCalls = MaxCalls
    /\ btResult = NoResult
    /\ btProps = <<>>
    /\ btPrevProps = <<>>
    /\ btPrevHistory = <<>>

\* ============================================================ update scheduler
MaxNow == 3
MaxCycles == 3
MaxInFlight == 2

Priorities == {"immediate", "urgent", "regular", "standard"}

\* this.intervals, in minutes
Intervals == [p \in Priorities |->
                 IF p = "immediate" THEN 1
                 ELSE IF p = "urgent" THEN 5
                 ELSE IF p = "regular" THEN 10 ELSE 60]

\* getUpdatePriority with strict comparisons
GetUpdatePriorityStrict(closes, t) ==
    IF closes = <<>> THEN "standard"
    ELSE LET remaining == closes[1] - t
         IN IF remaining < 0 THEN "expired"
            ELSE IF remaining < 1 * MinutesPerHour THEN "immediate"
            ELSE IF remaining < 3 * MinutesPerHour THEN "urgent"
            ELSE IF remaining < 6 * MinutesPerHour THEN "regular"
            ELSE "standard"

\* getUpdatePriority at the time t; an unparseable closing time makes every
\* comparison false and falls through to the last branch
GetUpdatePriority(closes, t) ==
    IF closes = <<>> THEN "standard"
    ELSE LET remaining == closes[1] - t
         IN IF remaining <= 0 THEN "expired"
            ELSE IF remaining <= 1 * MinutesPerHour THEN "immediate"
            ELSE IF remaining <= 3 * MinutesPerHour THEN "urgent"
            ELSE IF remaining <= 6 * MinutesPerHour THEN "regular"
            ELSE "standard"

\* a job.type that makes every job run the full cycle
JobTypeAllFull(jobId) == "full"

\* job.type
JobType(jobId) == IF jobId \in {"immediate", "urgent"} THEN "quick" ELSE "full"

\* the filter on closing times of runParallelScraper and loadCurrentProperties
Individual(listings) ==
    LET keep == {id \in DOMAIN listings : listings[id].biddingCloses # <<>>}
    IN [id \in keep |-> listings[id]]

\* what a successful scrape of the site returns
SiteListings == [id \in AuctionIds |-> Listing(siteBids[id], SiteCloses[id])]

NoFile == [exists |-> FALSE, listings |-> <<>>]

FileOf(listings) == [exists |-> TRUE, listings |-> listings]

\* loadCurrentProperties
LoadCurrentProperties(file) == IF file.exists THEN Individual(file.listings) ELSE <<>>

\* the outcomes of the scraper child: results saved, a run-level error caught and
\* logged, or the process killed
ChildOutcomes == {"saved", "fatal", "killed"}

\* the exit code the scheduler sees on 'close'
ChildCode(outcome) == IF outcome = "killed" THEN 1 ELSE 0

UpdateResult(type, success, error) == [type |-> type, success |-> success, error |-> error]

\* history: this.updateHistory.slice(-100)
KeepHistory == 100

LastN(q, n) == IF Len(q) <= n THEN q ELSE SubSeq(q, Len(q) - n + 1, Len(q))

\* what saveScheduleHistory writes
ScheduleOf(last, history) == [lastFullUpdate |-> last, history |-> LastN(history, KeepHistory)]

\* the end of performFullUpdate / performQuickUpdate: the cycle c leaves with a result;
\* startMonitoring, which awaits its first cycle, goes on to scheduleUpdates
Conclude(c, child, success, error, last) ==
    /\ cycles' = cycles \ {c}
    /\ verdicts' = Append(verdicts, [child |-> child, ingested |-> c.ingested])
    /\ updateHistory' = Append(updateHistory, UpdateResult(c.type, success, error))
    /\ lastFullUpdate' = last
    /\ scheduleFile' = ScheduleOf(last, updateHistory')
    /\ schedPc' = IF c.job = "initial" THEN "scheduling" ELSE schedPc

\* properties.json at startup: missing, or written by the server's saveProperties
\* (all results of a scrape, bundles included)
SchedInit ==
    /\ schedPc = "start"
    /\ siteBids = [id \in AuctionIds |-> 0]
    /\ propertiesFile \in {NoFile, FileOf(SiteListings)}
    /\ activeJobs = <<>>
    /\ cycles = {}
    /\ started = 0
    /\ updateHistory = <<>>
    /\ lastFullUpdate = <<>>
    /\ scheduleFile = ScheduleOf(<<>>, <<>>)
    /\ ingest = [n |-> 0, saved |-> FALSE, scraped |-> <<>>, newChanges |-> 0]
    /\ verdicts = <<>>
    /\ priorityGroups = <<>>

\* a bidder raises the bid the site shows for a listing; the listings taken are the
\* ones the scraper child saves, the bid of a bundle reaches no file read here
SiteBid(id, amount) ==
    /\ siteBids[id] < amount
    /\ siteBids' = [siteBids EXCEPT ![id] = amount]
    /\ UNCHANGED <<schedPc, propertiesFile, activeJobs, cycles, started,
                   updateHistory, lastFullUpdate, scheduleFile, ingest, verdicts>>
    /\ UNCHANGED <<scrapeVars, wkVars, partVars, serverVars, prioVars, trackerVars, jobVars,
              scoreVars, normVars, sessVars, pzVars, tmVars>>
    /\ UNCHANGED priorityGroups

\* a minute passes; a timer that is due fires before the next minute
SchedTick ==
    /\ now < MaxNow
    /\ \A j \in DOMAIN activeJobs : activeJobs[j] > now
    /\ now' = now + 1
    /\ UNCHANGED <<bidHistory, currentProperties, historyFile, snapshotFiles,
                   btCalls, btResult, btProps, btPrevProps, btPrevHistory>>
    /\ UNCHANGED <<scrapeVars, wkVars, partVars, serverVars, prioVars, schedVars, jobVars, scoreVars,
              normVars, sessVars, pzVars, tmVars>>

\* spawn of the scraper child at the start of an update cycle
StartCycle(jobId, type) ==
    /\ started' = started + 1
    /\ cycles' = cycles \cup {[n |-> started + 1, job |-> jobId, type |-> type,
                               pc |-> "scraping", child |-> "running",
                               saved |-> FALSE, scraped |-> <<>>,
                               ingested |-> FALSE, result |-> <<>>, pending |-> <<>>]}

\* startMonitoring up to the spawn of the scraper of the initial full update:
\* initialize loads the bid history and the current properties
StartMonitoring ==
    /\ schedPc = "start"
    /\ bidHistory' = LoadBidHistory(historyFile)
    /\ currentProperties' = LoadCurrentProperties(propertiesFile)
    /\ StartCycle("initial", "full")
    /\ schedPc' = "initialUpdate"
    /\ UNCHANGED <<siteBids, propertiesFile, activeJobs, updateHistory, lastFullUpdate,
                   scheduleFile, ingest, verdicts>>
    /\ UNCHANGED <<now, historyFile, snapshotFiles, btCalls, btResult, btProps,
                   btPrevProps, btPrevHistory>>
    /\ UNCHANGED <<scrapeVars, wkVars, partVars, serverVars, prioVars, jobVars, scoreVars, normVars,
              sessVars, pzVars, tmVars>>
    /\ UNCHANGED priorityGroups

\* updateBidTracking of the cycle c, whose record after the exit of its child is
\* `exited`, up to the first await of recordSnapshot: recordSnapshot() is called
\* without argument and reads this.currentProperties; without listings it returns
\* undefined and reading snapshot.totalTracked throws; otherwise the loop updates
\* this.bidHistory and the snapshot file write is issued
UpdateBidTracking(c, exited) ==
    IF currentProperties = <<>>
    THEN /\ Conclude(c, exited.child, FALSE, "TypeError", lastFullUpdate)
         /\ UNCHANGED <<bidHistory, btCalls, btProps, btPrevProps, btPrevHistory, ingest>>
    ELSE /\ bidHistory' = RecordAll(bidHistory, currentProperties, now)
         /\ btCalls' = btCalls + 1
         /\ btProps' = currentProperties
         /\ btPrevProps' = btProps
         /\ btPrevHistory' = bidHistory
         /\ ingest' = [n |-> c.n, saved |-> exited.saved, scraped |-> exited.scraped,
                       newChanges |-> NewChanges(bidHistory, currentProperties)]
         /\ cycles' = (cycles \ {c}) \cup
                {[exited EXCEPT !.pc = "writingSnapshot",
                                !.ingested = TRUE,
                                !.result = <<[timestamp |-> now,
                                              totalTracked |-> Cardinality(DOMAIN currentProperties),
                                              newChanges |-> NewChanges(bidHistory, currentProperties)]>>]}
         /\ UNCHANGED <<schedPc, updateHistory, lastFullUpdate, scheduleFile, verdicts>>

\* the scraper child of the cycle c ends: scrapeAuctionData settles on 'close'. With
\* exit code 0 the cycle goes on, in the same turn of the event loop, to
\* updateBidTracking; otherwise it ends with a failure
ChildExit(c, outcome) ==
    /\ c \in cycles
    /\ c.pc = "scraping"
    /\ propertiesFile' = IF outcome = "saved" THEN FileOf(Individual(SiteListings))
                         ELSE propertiesFile
    /\ IF ChildCode(outcome) = 0
       THEN UpdateBidTracking(c, [c EXCEPT !.child = outcome,
                                           !.saved = (outcome = "saved"),
                                           !.scraped = IF outcome = "saved"
                                                       THEN Individual(SiteListings) ELSE <<>>])
       ELSE /\ Conclude(c, outcome, FALSE, "Scraper exited with code", lastFullUpdate)
            /\ UNCHANGED <<bidHistory, btCalls, btProps, btPrevProps, btPrevHistory, ingest>>
    /\ UNCHANGED <<now, currentProperties, historyFile, snapshotFiles, btResult>>
    /\ UNCHANGED <<siteBids, activeJobs, started>>
    /\ UNCHANGED <<scrapeVars, wkVars, partVars, serverVars, prioVars, jobVars, scoreVars, normVars,
              sessVars, pzVars, tmVars>>
    /\ UNCHANGED priorityGroups

\* the write of the snapshot file of the cycle c completes and recordSnapshot calls
\* saveBidHistory, which serialises this.bidHistory as it is now and issues the write
SnapshotFileWritten(c) ==
    /\ c \in cycles
    /\ c.pc = "writingSnapshot"
    /\ snapshotFiles' = snapshotFiles \cup {c.result[1].timestamp}
    /\ cycles' = (cycles \ {c}) \cup
           {[c EXCEPT !.pc = "writingHistory", !.pending = JsonStringify(bidHistory)]}
    /\ UNCHANGED <<now, bidHistory, currentProperties, historyFile, btCalls, btResult,
                   btProps, btPrevProps, btPrevHistory>>
    /\ UNCHANGED <<schedPc, siteBids, propertiesFile, activeJobs, started, updateHistory,
                   lastFullUpdate, scheduleFile, ingest, verdicts>>
    /\ UNCHANGED <<scrapeVars, wkVars, partVars, serverVars, prioVars, jobVars, scoreVars, normVars,
              sessVars, pzVars, tmVars>>
    /\ UNCHANGED priorityGroups

\* the write of the history file of the cycle c completes and recordSnapshot returns;
\* a quick cycle ends here
HistoryFileWritten(c) ==
    /\ c \in cycles
    /\ c.pc = "writingHistory"
    /\ historyFile' = c.pending
    /\ btResult' = c.result[1]
    /\ IF c.type = "quick"
       THEN Conclude(c, c.child, TRUE, "", lastFullUpdate)
       ELSE /\ cycles' = (cycles \ {c}) \cup {[c EXCEPT !.pc = "analytics"]}
            /\ UNCHANGED <<schedPc, updateHistory, lastFullUpdate, scheduleFile, verdicts>>
    /\ UNCHANGED <<now, bidHistory, currentProperties, snapshotFiles, btCalls,
                   btProps, btPrevProps, btPrevHistory>>
    /\ UNCHANGED <<siteBids, propertiesFile, activeJobs, started, ingest>>
    /\ UNCHANGED <<scrapeVars, wkVars, partVars, serverVars, prioVars, jobVars, scoreVars, normVars,
              sessVars, pzVars, tmVars>>
    /\ UNCHANGED priorityGroups

\* the rest of performFullUpdate for the cycle c: updateAnalytics, which may throw,
\* then cleanOldSnapshots
FinishFullUpdate(c, analyticsOk) ==
    /\ c \in cycles
    /\ c.pc = "analytics"
    /\ IF analyticsOk
       THEN /\ snapshotFiles' = CleanOldSnapshots(snapshotFiles)
            /\ Conclude(c, c.child, TRUE, "", <<now>>)
       ELSE /\ UNCHANGED snapshotFiles
            /\ Conclude(c, c.child, FALSE, "analytics", lastFullUpdate)
    /\ UNCHANGED <<now, bidHistory, currentProperties, historyFile, btCalls, btResult,
                   btProps, btPrevProps, btPrevHistory>>
    /\ UNCHANGED <<siteBids, propertiesFile, activeJobs, started, ingest>>
    /\ UNCHANGED <<scrapeVars, wkVars, partVars, serverVars, prioVars, jobVars, scoreVars, normVars,
              sessVars, pzVars, tmVars>>
    /\ UNCHANGED priorityGroups

\* the priorities that have a listing in the file at the time t
NonEmptyGroups(file, t) ==
    {GetUpdatePriority(file.listings[id].biddingCloses, t) : id \in DOMAIN file.listings}

\* scheduleUpdates, called once by startMonitoring; reading a missing file rejects.
\* scheduleJob sets a timer that first fires one interval from now.
ScheduleUpdates ==
    /\ schedPc = "scheduling"
    /\ priorityGroups' =
          IF propertiesFile.exists
          THEN [id \in DOMAIN propertiesFile.listings |->
                   GetUpdatePriority(propertiesFile.listings[id].biddingCloses, now)]
          ELSE priorityGroups
    /\ IF propertiesFile.exists
       THEN LET new == (NonEmptyGroups(propertiesFile, now) \cap Priorities)
                           \ DOMAIN activeJobs
            IN /\ activeJobs' = [j \in (DOMAIN activeJobs) \cup new |->
                                    IF j \in new THEN now + Intervals[j] ELSE activeJobs[j]]
               /\ schedPc' = "monitoring"
       ELSE /\ schedPc' = "rejected"
            /\ UNCHANGED activeJobs
    /\ UNCHANGED <<siteBids, propertiesFile, cycles, started, updateHistory,
                   lastFullUpdate, scheduleFile, ingest, verdicts>>
    /\ UNCHANGED <<scrapeVars, wkVars, partVars, serverVars, prioVars, trackerVars, jobVars,
              scoreVars, normVars, sessVars, pzVars, tmVars>>

\* the setInterval callback of the job jobId runs: it starts an update cycle whether
\* or not an earlier one of the job has finished
TimerFires(jobId) ==
    /\ jobId \in DOMAIN activeJobs
    /\ activeJobs[jobId] <= now
    /\ started < MaxCycles
    /\ Cardinality(cycles) < MaxInFlight
    /\ StartCycle(jobId, JobType(jobId))
    /\ activeJobs' = [activeJobs EXCEPT ![jobId] = @ + Intervals[jobId]]
    /\ UNCHANGED <<schedPc, siteBids, propertiesFile, updateHistory, lastFullUpdate,
                   scheduleFile, ingest, verdicts>>
    /\ UNCHANGED <<scrapeVars, wkVars, partVars, serverVars, prioVars, trackerVars, jobVars,
              scoreVars, normVars, sessVars, pzVars, tmVars>>
    /\ UNCHANGED priorityGroups

SchedNext ==
    \/ \E id \in DOMAIN Individual(SiteListings), amount \in BidAmounts : SiteBid(id, amount)
    \/ SchedTick
    \/ StartMonitoring
    \/ \E c \in cycles, outcome \in ChildOutcomes : ChildExit(c, outcome)
    \/ \E c \in cycles : SnapshotFileWritten(c)
    \/ \E c \in cycles : HistoryFileWritten(c)
    \/ \E c \in cycles, analyticsOk \in BOOLEAN : FinishFullUpdate(c, analyticsOk)
    \/ ScheduleUpdates
    \/ \E jobId \in Priorities : TimerFires(jobId)

\* the steps the event loop, the timers and the children take by themselves
SchedFairness ==
    /\ WF_vars(SchedTick)
    /\ WF_vars(StartMonitoring)
    /\ WF_vars(\E c \in cycles, outcome \in ChildOutcomes : ChildExit(c, outcome))
    /\ WF_vars(\E c \in cycles : SnapshotFileWritten(c))
    /\ WF_vars(\E c \in cycles : HistoryFileWritten(c))
    /\ WF_vars(\E c \in cycles, analyticsOk \in BOOLEAN : FinishFullUpdate(c, analyticsOk))
    /\ WF_vars(ScheduleUpdates)
    /\ WF_vars(\E jobId \in Priorities : TimerFires(jobId))

SchedIdle ==
    /\ schedPc = "off"
    /\ siteBids = [id \in AuctionIds |-> 0]
    /\ propertiesFile = NoFile
    /\ activeJobs = <<>>
    /\ cycles = {}
    /\ started = 0
    /\ updateHistory = <<>>
    /\ lastFullUpdate = <<>>
    /\ scheduleFile = ScheduleOf(<<>>, <<>>)
    /\ ingest = [n |-> 0, saved |-> FALSE, scraped |-> <<>>, newChanges |-> 0]
    /\ verdicts = <<>>
    /\ priorityGroups = <<>>

\* ============================================================ dashboard server
MaxStarts == 1
MaxTotal == 2

RunIds == 1..MaxStarts

\* a run slot no background function uses yet
NoRun == [pc |-> "none", total |-> 0, left |-> 0, errSeen |-> FALSE, got |-> 0,
          reported |-> 0, workersAlive |-> FALSE, response |-> "none", outcome |-> "none"]

\* let scrapingStatus = { isRunning: false, progress: 0, total: 0, ..., errors: [] }
StatusAtStart == [isRunning |-> FALSE, progress |-> 0, total |-> 0, errors |-> <<>>]

ServerInit ==
    /\ svKind \in {"fast", "basic"}
    /\ scrapingStatus = StatusAtStart
    /\ svRun = [r \in RunIds |-> NoRun]
    /\ svStarted = 0
    /\ svLast = "none"

ServerIdle ==
    /\ svKind = "fast"
    /\ scrapingStatus = StatusAtStart
    /\ svRun = [r \in RunIds |-> NoRun]
    /\ svStarted = MaxStarts
    /\ svLast = "none"

\* a catch block that records the error and leaves isRunning as it is
CatchKeepsRunning(r, message) ==
    /\ scrapingStatus' = [scrapingStatus EXCEPT !.errors = Append(@, message)]
    /\ svRun' = [svRun EXCEPT ![r].pc = "closing", ![r].outcome = message]
    /\ svLast' = "failed"

\* the catch block of fastScrapeProperties and of scrapeProperties; the workers of a
\* parallel run are not stopped
Catch(r, message) ==
    /\ scrapingStatus' = [scrapingStatus EXCEPT !.errors = Append(@, message),
                                                !.isRunning = FALSE]
    /\ svRun' = [svRun EXCEPT ![r].pc = "closing", ![r].outcome = message]
    /\ svLast' = "failed"

\* POST /api/fast-scrape, /api/scrape, /api/scrape-range (guarded by isRunning) and
\* POST /api/test-fast (not guarded): the response is sent, then the background
\* function runs up to its first await: it replaces scrapingStatus
StartScrape(total, guarded) ==
    /\ svStarted + 1 \in DOMAIN svRun
    /\ guarded \/ svKind = "fast"
    /\ guarded => ~scrapingStatus.isRunning
    /\ scrapingStatus' = [isRunning |-> TRUE, progress |-> 0, total |-> total, errors |-> <<>>]
    /\ svRun' = [svRun EXCEPT ![svStarted + 1] =
                    [NoRun EXCEPT !.pc = "initializing", !.total = total, !.left = total,
                                  !.response = "started"]]
    /\ svStarted' = svStarted + 1
    /\ svLast' = "none"
    /\ UNCHANGED svKind
    /\ UNCHANGED <<scrapeVars, wkVars, partVars, trackerVars, schedVars, prioVars, jobVars, scoreVars,
              normVars, sessVars, pzVars, tmVars>>

\* await scraper.initialize() settles: the parallel scraper logs in there and goes on
\* to scrapeRange, the basic scraper goes on to login()
Initialized(r, ok) ==
    /\ svRun[r].pc = "initializing"
    /\ IF ok
       THEN /\ svRun' = [svRun EXCEPT ![r].pc = IF svKind = "fast" THEN "scraping" ELSE "login",
                                      ![r].workersAlive = (svKind = "fast")]
            /\ UNCHANGED <<scrapingStatus, svLast>>
       ELSE Catch(r, "initialize failed")
    /\ UNCHANGED <<svKind, svStarted>>
    /\ UNCHANGED <<scrapeVars, wkVars, partVars, trackerVars, schedVars, prioVars, jobVars, scoreVars,
              normVars, sessVars, pzVars, tmVars>>

\* server.js: await scraper.login() returns; false is turned into an Error
LoggedIn(r, loginSuccess) ==
    /\ svRun[r].pc = "login"
    /\ IF loginSuccess
       THEN /\ svRun' = [svRun EXCEPT ![r].pc = "scraping"]
            /\ UNCHANGED <<scrapingStatus, svLast>>
       ELSE Catch(r, "Failed to login to auction site")
    /\ UNCHANGED <<svKind, svStarted>>
    /\ UNCHANGED <<scrapeVars, wkVars, partVars, trackerVars, schedVars, prioVars, jobVars, scoreVars,
              normVars, sessVars, pzVars, tmVars>>

\* parallel scraper, worker.on('message') for an 'error' message: the per-ID failure
\* of the ID being scraped is written to the console
OnErrorMessage(r) ==
    /\ svKind = "fast"
    /\ svRun[r].workersAlive
    /\ svRun[r].left > 0
    /\ ~svRun[r].errSeen
    /\ svRun' = [svRun EXCEPT ![r].errSeen = TRUE, ![r].reported = @ + 1]
    /\ UNCHANGED <<svKind, scrapingStatus, svStarted, svLast>>
    /\ UNCHANGED <<scrapeVars, wkVars, partVars, trackerVars, schedVars, prioVars, jobVars, scoreVars,
              normVars, sessVars, pzVars, tmVars>>

\* parallel scraper, worker.on('message') for a 'progress' message: the callback given
\* to scrapeRange copies the progress into whatever scrapingStatus is now
OnProgressMessage(r) ==
    /\ svKind = "fast"
    /\ svRun[r].workersAlive
    /\ svRun[r].left > 0
    /\ svRun' = [svRun EXCEPT ![r].left = @ - 1, ![r].errSeen = FALSE]
    /\ scrapingStatus' = [scrapingStatus EXCEPT !.progress = svRun[r].total - svRun[r].left + 1]
    /\ UNCHANGED <<svKind, svStarted, svLast>>
    /\ UNCHANGED <<scrapeVars, wkVars, partVars, trackerVars, schedVars, prioVars, jobVars, scoreVars,
              normVars, sessVars, pzVars, tmVars>>

\* parallel scraper: a worker thread fails as a whole ('error' event or non-zero exit),
\* its promise rejects and so does scrapeRange
WorkerFailed(r) ==
    /\ svKind = "fast"
    /\ svRun[r].pc = "scraping"
    /\ Catch(r, "Worker stopped")
    /\ UNCHANGED <<svKind, svStarted>>
    /\ UNCHANGED <<scrapeVars, wkVars, partVars, trackerVars, schedVars, prioVars, jobVars, scoreVars,
              normVars, sessVars, pzVars, tmVars>>

\* basic scraper, one iteration of the loop of scrapePropertyRange: the ID gives data or
\* nothing and onProgress is called, or it throws and the catch of the loop logs it
ScrapedId(r, outcome) ==
    /\ svKind = "basic"
    /\ svRun[r].pc = "scraping"
    /\ svRun[r].left > 0
    /\ svRun' = [svRun EXCEPT ![r].left = @ - 1,
                              ![r].got = IF outcome = "data" THEN @ + 1 ELSE @,
                              ![r].reported = IF outcome = "throws" THEN @ + 1 ELSE @]
    /\ scrapingStatus' = IF outcome = "throws" THEN scrapingStatus
                         ELSE [scrapingStatus EXCEPT !.progress = svRun[r].total - svRun[r].left]
    /\ UNCHANGED <<svKind, svStarted, svLast>>
    /\ UNCHANGED <<scrapeVars, wkVars, partVars, trackerVars, schedVars, prioVars, jobVars, scoreVars,
              normVars, sessVars, pzVars, tmVars>>

\* scrapeRange / scrapePropertyRange returns its results. The basic server saves the
\* results of the batch first when there are any (a range of the model is one batch)
RangeDone(r) ==
    /\ svRun[r].pc = "scraping"
    /\ svRun[r].left = 0
    /\ svRun' = [svRun EXCEPT ![r].pc = IF svKind = "basic" /\ svRun[r].got > 0
                                       THEN "savingBatch" ELSE "saving",
                              ![r].workersAlive = FALSE]
    /\ UNCHANGED <<svKind, scrapingStatus, svStarted, svLast>>
    /\ UNCHANGED <<scrapeVars, wkVars, partVars, trackerVars, schedVars, prioVars, jobVars, scoreVars,
              normVars, sessVars, pzVars, tmVars>>

\* server.js: the intermediate saveProperties of the batch settles
BatchSaved(r, ok) ==
    /\ svRun[r].pc = "savingBatch"
    /\ IF ok
       THEN /\ svRun' = [svRun EXCEPT ![r].pc = "saving"]
            /\ UNCHANGED <<scrapingStatus, svLast>>
       ELSE Catch(r, "save failed")
    /\ UNCHANGED <<svKind, svStarted>>
    /\ UNCHANGED <<scrapeVars, wkVars, partVars, trackerVars, schedVars, prioVars, jobVars, scoreVars,
              normVars, sessVars, pzVars, tmVars>>

\* await saveProperties(results) settles; on success the run is marked finished
Saved(r, ok) ==
    /\ svRun[r].pc = "saving"
    /\ IF ok
       THEN /\ scrapingStatus' = [scrapingStatus EXCEPT !.isRunning = FALSE,
                                                        !.progress = scrapingStatus.total]
            /\ svRun' = [svRun EXCEPT ![r].pc = "closing", ![r].outcome = "ok"]
            /\ svLast' = "ok"
       ELSE Catch(r, "save failed")
    /\ UNCHANGED <<svKind, svStarted>>
    /\ UNCHANGED <<scrapeVars, wkVars, partVars, trackerVars, schedVars, prioVars, jobVars, scoreVars,
              normVars, sessVars, pzVars, tmVars>>

\* finally: await scraper.close(); when it throws, the promise of the background
\* function, which nothing awaits, rejects
Closed(r, ok) ==
    /\ svRun[r].pc = "closing"
    /\ svRun' = [svRun EXCEPT ![r].pc = IF ok THEN "done" ELSE "unhandledRejection"]
    /\ UNCHANGED <<svKind, scrapingStatus, svStarted, svLast>>
    /\ UNCHANGED <<scrapeVars, wkVars, partVars, trackerVars, schedVars, prioVars, jobVars, scoreVars,
              normVars, sessVars, pzVars, tmVars>>

ServerNext ==
    \/ \E total \in 1..MaxTotal, guarded \in BOOLEAN : StartScrape(total, guarded)
    \/ \E r \in RunIds, ok \in BOOLEAN : Initialized(r, ok)
    \/ \E r \in RunIds, ok \in BOOLEAN : LoggedIn(r, ok)
    \/ \E r \in RunIds : OnErrorMessage(r)
    \/ \E r \in RunIds : OnProgressMessage(r)
    \/ \E r \in RunIds : WorkerFailed(r)
    \/ \E r \in RunIds, outcome \in {"data", "nothing", "throws"} : ScrapedId(r, outcome)
    \/ \E r \in RunIds : RangeDone(r)
    \/ \E r \in RunIds, ok \in BOOLEAN : BatchSaved(r, ok)
    \/ \E r \in RunIds, ok \in BOOLEAN : Saved(r, ok)
    \/ \E r \in RunIds, ok \in BOOLEAN : Closed(r, ok)

\* ---- fast-server.js with room for one background run more than ServerSpec has
RaceRunIds == 1..(MaxStarts + 1)

ServerRaceInit ==
    /\ svKind = "fast"
    /\ scrapingStatus = StatusAtStart
    /\ svRun = [r \in RaceRunIds |-> NoRun]
    /\ svStarted = 0
    /\ svLast = "none"

ServerRaceNext ==
    \/ \E total \in 1..MaxTotal, guarded \in BOOLEAN : StartScrape(total, guarded)
    \/ \E r \in RaceRunIds, ok \in BOOLEAN : Initialized(r, ok)
    \/ \E r \in RaceRunIds : OnErrorMessage(r)
    \/ \E r \in RaceRunIds : OnProgressMessage(r)
    \/ \E r \in RaceRunIds : WorkerFailed(r)
    \/ \E r \in RaceRunIds : RangeDone(r)
    \/ \E r \in RaceRunIds, ok \in BOOLEAN : Saved(r, ok)
    \/ \E r \in RaceRunIds, ok \in BOOLEAN : Closed(r, ok)

\* ======================================================= urgency classification
MaxPrioNow == 1
MaxLate == 1
MaxRemaining == 601

\* the five priorities getUpdatePriority can return
AllPriorities == Priorities \cup {"expired"}

PrioInit ==
    /\ prNow \in 0..MaxPrioNow
    /\ prCloses \in {<<>>} \cup {<<prNow + d>> : d \in (0 - MaxLate)..MaxRemaining}
    /\ prResult = <<>>

PrioIdle ==
    /\ prNow = 0
    /\ prCloses = <<>>
    /\ prResult = <<"standard">>

\* one call getUpdatePriority(closingTime)
Classify ==
    /\ prResult = <<>>
    /\ prResult' = <<GetUpdatePriority(prCloses, prNow)>>
    /\ UNCHANGED <<prNow, prCloses>>
    /\ UNCHANGED <<scrapeVars, wkVars, partVars, trackerVars, schedVars, serverVars, jobVars,
              scoreVars, normVars, sessVars, pzVars, tmVars>>

PrioNext == Classify

\* ============================================================ competition score
\* One call of calculateCompetitionScore: the metrics and the history of the entry are
\* drawn from the values around every threshold of the function.

\* snapshots without a bid change at the end of a history
MaxIdleSnapshots == 1

\* metrics.totalChanges
ScoreChanges == {0, 1, 3, 5, 10, 12}
\* metrics.bidVelocity, changes per day
ScoreVelocities == {Rat(0, 1), Rat(1, 4), Rat(1, 2), Rat(1, 1), Rat(2, 1), Rat(9, 2), Rat(6, 1)}
\* metrics.lastChangeHours; null until a second snapshot exists
ScoreRecencies == {NoValue, Rat(1, 2), Rat(1, 1), Rat(6, 1), Rat(24, 1), Rat(48, 1), Rat(49, 1)}
\* metrics.totalIncreasePercent; null until a second snapshot exists
ScoreIncreases == {NoValue, Rat(0 - 20, 1), Rat(0, 1), Rat(10, 1), Rat(25, 1), Rat(50, 1),
                   Rat(60, 1)}
\* changePercent of the last bid change of a history
ScoreJumps == {Rat(0 - 25, 1), Rat(0, 1), Rat(20, 1), Rat(25, 1)}

\* a history with `changes` bid changes: the first snapshot, one snapshot per change
\* (1 percent each, the last one `jump` percent) and `idle` snapshots without a change,
\* whose changePercent is null
ScoreHistory(changes, jump, idle) ==
    [i \in 1..(changes + 1 + idle) |->
        [changePercent |-> IF i = 1 \/ i > changes + 1 THEN NoValue
                           ELSE IF i = changes + 1 THEN jump ELSE Rat(1, 1)]]

ScoreInit ==
    /\ \E c \in ScoreChanges, v \in ScoreVelocities, r \in ScoreRecencies,
          p \in ScoreIncreases, j \in ScoreJumps, idle \in 0..MaxIdleSnapshots :
          /\ scHistory = ScoreHistory(c, j, idle)
          /\ scMetrics = [totalChanges |-> c, bidVelocity |-> v, lastChangeHours |-> r,
                          totalIncreasePercent |-> p]
    /\ scScore = <<>>

ScoreIdle ==
    /\ scHistory = <<>>
    /\ scMetrics = [totalChanges |-> 0, bidVelocity |-> Rat(0, 1), lastChangeHours |-> NoValue,
                    totalIncreasePercent |-> NoValue]
    /\ scScore = <<0>>

\* metrics.competitionScore = this.calculateCompetitionScore(propertyHistory)
CalculateCompetitionScore ==
    /\ scScore = <<>>
    /\ scScore' = <<CompetitionScore(scHistory, scMetrics)>>
    /\ UNCHANGED <<scHistory, scMetrics>>
    /\ UNCHANGED <<scrapeVars, wkVars, partVars, trackerVars, schedVars, serverVars, prioVars,
                   jobVars, normVars, sessVars, pzVars, tmVars>>

ScoreNext == CalculateCompetitionScore

\* ======================================================== currency normalization
\* A text is the sequence of its characters; a raw field is <<>> for null (the element
\* is missing from the page) and <<text>> otherwise, so <<<<>>>> is the empty string.

TextNone == <<"N", "O", "N", "E">>
TextNA == <<"N", "/", "A">>
TextZero == <<"$", "0", ".", "0", "0">>
TextZeroShort == <<"$", "0">>
Text1234 == <<"$", "1", ",", "2", "3", "4", ".", "5", "6">>
Text500 == <<"$", "5", "0", "0", ".", "0", "0">>

RawValues ==
    {<<>>} \cup {<<t>> : t \in {<<>>, TextNone, TextNA, TextZero, TextZeroShort, Text1234,
                                Text500}}

DigitValue ==
    "0" :> 0 @@ "1" :> 1 @@ "2" :> 2 @@ "3" :> 3 @@ "4" :> 4 @@ "5" :> 5 @@ "6" :> 6 @@
    "7" :> 7 @@ "8" :> 8 @@ "9" :> 9

\* the number NaN
NaN == [n |-> 1, d |-> 0]

\* the digits of s from position i on
RECURSIVE DigitsFrom(_, _)
DigitsFrom(s, i) ==
    IF i <= Len(s) /\ s[i] \in DOMAIN DigitValue
    THEN <<s[i]>> \o DigitsFrom(s, i + 1) ELSE <<>>

RECURSIVE DecimalValue(_)
DecimalValue(ds) ==
    IF ds = <<>> THEN 0
    ELSE DecimalValue(SubSeq(ds, 1, Len(ds) - 1)) * 10 + DigitValue[ds[Len(ds)]]

RECURSIVE Pow10(_)
Pow10(k) == IF k = 0 THEN 1 ELSE 10 * Pow10(k - 1)

RECURSIVE SkipSpaces(_, _)
SkipSpaces(s, i) == IF i <= Len(s) /\ s[i] = " " THEN SkipSpaces(s, i + 1) ELSE i

\* parseFloat on a text without exponent: leading white space, a sign, digits, a
\* point and digits; the longest such prefix is the number, NaN when it has no digit
ParseFloat(s) ==
    LET start == SkipSpaces(s, 1)
        signed == start <= Len(s) /\ s[start] \in {"-", "+"}
        neg == signed /\ s[start] = "-"
        first == IF signed THEN start + 1 ELSE start
        int == DigitsFrom(s, first)
        dot == first + Len(int)
        frac == IF dot <= Len(s) /\ s[dot] = "." THEN DigitsFrom(s, dot + 1) ELSE <<>>
        mantissa == DecimalValue(int) * Pow10(Len(frac)) + DecimalValue(frac)
    IN IF int = <<>> /\ frac = <<>> THEN NaN
       ELSE Rat(IF neg THEN 0 - mantissa ELSE mantissa, Pow10(Len(frac)))

\* x || 0 on a number: NaN and 0 are falsy
OrZero(x) == IF ~IsValue(x) \/ x.n = 0 THEN Rat(0, 1) ELSE x

\* a replace that removes the dollar signs only
StripDollarOnly(t) == SelectSeq(t, LAMBDA c : c # "$")

\* value.replace(/[$,]/g, '')
StripCurrency(t) == SelectSeq(t, LAMBDA c : c \notin {"$", ","})

\* a raw field read as a condition: null and the empty string are falsy
Truthy(raw) == raw # <<>> /\ raw[1] # <<>>

\* parseCurrency(value)
ParseCurrency(raw) ==
    IF ~Truthy(raw) THEN Rat(0, 1)
    ELSE OrZero(ParseFloat(StripCurrency(raw[1])))

\* parseFloat((field || '').replace(/[$,]/g, '')) || 0
WorkerNumeric(raw) ==
    OrZero(ParseFloat(StripCurrency(IF Truthy(raw) THEN raw[1] ELSE <<>>)))

\* currentBid && currentBid !== '' && currentBid !== '$0.00': the value of the chain
\* is its first falsy operand (null or the empty string) or the last comparison
HasBidsOf(raw) ==
    IF raw = <<>> THEN "null"
    ELSE IF raw[1] = <<>> THEN "empty string"
    ELSE IF raw[1] # TextZero THEN "true" ELSE "false"

NormInit ==
    /\ nmKind \in {"worker", "scraper", "call"}
    /\ nmRaw \in [currentBid : RawValues, minimumBid : RawValues, sevValue : RawValues]
    /\ nmOut = <<>>

NormIdle ==
    /\ nmKind = "off"
    /\ nmRaw = [currentBid |-> <<>>, minimumBid |-> <<>>, sevValue |-> <<>>]
    /\ nmOut = <<>>

\* runWorker: "Parse numeric values"
ParseNumericValues ==
    /\ nmKind = "worker"
    /\ nmOut = <<>>
    /\ nmOut' = <<[minimumBidNumeric |-> <<WorkerNumeric(nmRaw.minimumBid)>>,
                   currentBidNumeric |-> <<WorkerNumeric(nmRaw.currentBid)>>,
                   sevValueNumeric |-> <<WorkerNumeric(nmRaw.sevValue)>>,
                   hasBids |-> HasBidsOf(nmRaw.currentBid)]>>
    /\ UNCHANGED <<nmKind, nmRaw>>
    /\ UNCHANGED <<scrapeVars, wkVars, partVars, trackerVars, schedVars, serverVars, prioVars,
                   jobVars, scoreVars, sessVars, pzVars, tmVars>>

\* scrapePropertyById: "Clean up currency values"; a numeric field is set only when
\* its raw field is truthy
CleanUpCurrency ==
    /\ nmKind = "scraper"
    /\ nmOut = <<>>
    /\ LET numeric(raw) == IF Truthy(raw) THEN <<ParseCurrency(raw)>> ELSE <<>>
       IN nmOut' = <<[minimumBidNumeric |-> numeric(nmRaw.minimumBid),
                      currentBidNumeric |-> numeric(nmRaw.currentBid),
                      sevValueNumeric |-> numeric(nmRaw.sevValue),
                      hasBids |-> HasBidsOf(nmRaw.currentBid)]>>
    /\ UNCHANGED <<nmKind, nmRaw>>
    /\ UNCHANGED <<scrapeVars, wkVars, partVars, trackerVars, schedVars, serverVars, prioVars,
                   jobVars, scoreVars, sessVars, pzVars, tmVars>>

\* a call of parseCurrency on each raw field
CallParseCurrency ==
    /\ nmKind = "call"
    /\ nmOut = <<>>
    /\ nmOut' = <<[minimumBidNumeric |-> <<ParseCurrency(nmRaw.minimumBid)>>,
                   currentBidNumeric |-> <<ParseCurrency(nmRaw.currentBid)>>,
                   sevValueNumeric |-> <<ParseCurrency(nmRaw.sevValue)>>,
                   hasBids |-> "undefined"]>>
    /\ UNCHANGED <<nmKind, nmRaw>>
    /\ UNCHANGED <<scrapeVars, wkVars, partVars, trackerVars, schedVars, serverVars, prioVars,
                   jobVars, scoreVars, sessVars, pzVars, tmVars>>

NormNext == ParseNumericValues \/ CleanUpCurrency \/ CallParseCurrency

\* ================================================================ session state
\* navigations of one worker that may change the cookies of its context
MaxWorkerSteps == 2

\* a cookie of the site; `value` tells the issues of a cookie apart
Cookie(name, value) == [name |-> name, value |-> value]

\* the cookie jar after the site sets cookie c: c replaces the cookie of its name
SetCookie(jar, c) == {x \in jar : x.name # c.name} \cup {c}

\* context.addCookies(cookies)
RECURSIVE AddCookies(_, _)
AddCookies(jar, cookies) ==
    IF cookies = {} THEN jar
    ELSE LET c == CHOOSE x \in cookies : TRUE
         IN AddCookies(SetCookie(jar, c), cookies \ {c})

LoginFailedMessage == "Login failed - cannot access property pages"

SessInit ==
    /\ ssPc = "new"
    /\ ssValid \in BOOLEAN
    /\ ssWorkerCount \in 1..MaxWorkers
    /\ ssMaster = {}
    /\ ssCookies = <<>>
    /\ ssStorageState = <<>>
    /\ ssError = <<>>
    /\ ssAttempts = 0
    /\ ssProbe = "none"
    /\ ssWorkers = <<>>
    /\ ssExported = <<>>

SessIdle ==
    /\ ssPc = "off"
    /\ ssValid = FALSE
    /\ ssWorkerCount = 1
    /\ ssMaster = {}
    /\ ssCookies = <<>>
    /\ ssStorageState = <<>>
    /\ ssError = <<>>
    /\ ssAttempts = 0
    /\ ssProbe = "none"
    /\ ssWorkers = <<>>
    /\ ssExported = <<>>

\* loginAndSaveSession up to the click on #btnLogin: the site gives the context a
\* session cookie, and an authentication cookie when it accepts the credentials
SubmitCredentials ==
    /\ ssPc = "new"
    /\ ssPc' = "probing"
    /\ ssAttempts' = ssAttempts + 1
    /\ ssMaster' = IF ssValid THEN {Cookie("session", 0), Cookie("auth", 0)}
                              ELSE {Cookie("session", 0)}
    /\ UNCHANGED <<ssValid, ssWorkerCount, ssCookies, ssStorageState, ssError, ssProbe,
                   ssWorkers, ssExported>>
    /\ UNCHANGED <<scrapeVars, wkVars, partVars, trackerVars, schedVars, serverVars, prioVars,
                   jobVars, scoreVars, normVars, pzVars, tmVars>>

\* the probe that saves the session before it looks for the marker
ProbeSavesFirst(outcome) ==
    /\ ssPc = "probing"
    /\ outcome \in {"timeout", IF ssValid THEN "marker" ELSE "absent"}
    /\ ssProbe' = outcome
    /\ IF outcome # "timeout"
       THEN /\ ssCookies' = <<ssMaster>>
            /\ ssStorageState' = <<[cookies |-> ssMaster, origins |-> {}]>>
            /\ ssExported' = <<[cookies |-> ssMaster,
                                storageState |-> [cookies |-> ssMaster, origins |-> {}]]>>
       ELSE UNCHANGED <<ssCookies, ssStorageState, ssExported>>
    /\ IF outcome = "marker"
       THEN ssPc' = "ready" /\ UNCHANGED ssError
       ELSE /\ ssPc' = "failed"
            /\ ssError' = <<IF outcome = "absent" THEN LoginFailedMessage ELSE "Timeout">>
    /\ UNCHANGED <<ssValid, ssWorkerCount, ssMaster, ssAttempts, ssWorkers>>
    /\ UNCHANGED <<scrapeVars, wkVars, partVars, trackerVars, schedVars, serverVars, prioVars,
                   jobVars, scoreVars, normVars, pzVars, tmVars>>

\* loginAndSaveSession from the goto of the detail page on: a navigation that times
\* out throws; a page without #ContentPlaceHolder1_lblPIN throws the login error;
\* otherwise the cookies and the storage state of the context are saved. The catch
\* rethrows, initialize() rejects and fastScrapeProperties goes to its catch.
ProbeDetailPage(outcome) ==
    /\ ssPc = "probing"
    /\ outcome \in {"timeout", IF ssValid THEN "marker" ELSE "absent"}
    /\ ssProbe' = outcome
    /\ IF outcome = "marker"
       THEN /\ ssCookies' = <<ssMaster>>
            /\ ssStorageState' = <<[cookies |-> ssMaster, origins |-> {}]>>
            /\ ssExported' = <<[cookies |-> ssMaster,
                                storageState |-> [cookies |-> ssMaster, origins |-> {}]]>>
            /\ ssPc' = "ready"
            /\ UNCHANGED ssError
       ELSE /\ ssPc' = "failed"
            /\ ssError' = <<IF outcome = "absent" THEN LoginFailedMessage ELSE "Timeout">>
            /\ UNCHANGED <<ssCookies, ssStorageState, ssExported>>
    /\ UNCHANGED <<ssValid, ssWorkerCount, ssMaster, ssAttempts, ssWorkers>>
    /\ UNCHANGED <<scrapeVars, wkVars, partVars, trackerVars, schedVars, serverVars, prioVars,
                   jobVars, scoreVars, normVars, pzVars, tmVars>>

\* scrapeRange after initialize() returned: launchWorker for every sub-range; the
\* workerData of each Worker is a structured clone of {cookies, storageState}
LaunchWorkers ==
    /\ ssPc = "ready"
    /\ ssPc' = "scraping"
    /\ ssWorkers' = [w \in DOMAIN Partition(1, MaxId, ssWorkerCount) |->
                        [seed |-> [cookies |-> ssCookies[1],
                                   storageState |-> ssStorageState[1]],
                         pc |-> "launched", context |-> {}, steps |-> 0]]
    /\ UNCHANGED <<ssValid, ssWorkerCount, ssMaster, ssCookies, ssStorageState, ssError,
                   ssAttempts, ssProbe, ssExported>>
    /\ UNCHANGED <<scrapeVars, wkVars, partVars, trackerVars, schedVars, serverVars, prioVars,
                   jobVars, scoreVars, normVars, pzVars, tmVars>>

\* runWorker: browser.newContext({...storageState}) and context.addCookies(cookies)
NewContext(w) ==
    /\ ssWorkers[w].pc = "launched"
    /\ ssWorkers' = [ssWorkers EXCEPT
                        ![w].pc = "open",
                        ![w].context = AddCookies(ssWorkers[w].seed.storageState.cookies,
                                                  ssWorkers[w].seed.cookies)]
    /\ UNCHANGED <<ssPc, ssValid, ssWorkerCount, ssMaster, ssCookies, ssStorageState, ssError,
                   ssAttempts, ssProbe, ssExported>>
    /\ UNCHANGED <<scrapeVars, wkVars, partVars, trackerVars, schedVars, serverVars, prioVars,
                   jobVars, scoreVars, normVars, pzVars, tmVars>>

\* the cookies of a context after a response of the site: unchanged, the session
\* cookie issued again, or the authentication cookie expired
AfterResponse(jar, w, effect) ==
    IF effect = "reissue" THEN SetCookie(jar, Cookie("session", w + 1))
    ELSE IF effect = "expire" THEN {x \in jar : x.name # "auth"}
    ELSE jar

\* a navigation whose cookie changes land in the session the coordinator stores
NavigateSharedJar(w, effect) ==
    /\ ssWorkers[w].pc = "open"
    /\ ssWorkers[w].steps < MaxWorkerSteps
    /\ ssWorkers' = [ssWorkers EXCEPT
                        ![w].steps = @ + 1,
                        ![w].context = AfterResponse(@, w, effect)]
    /\ ssCookies' = <<AfterResponse(ssCookies[1], w, effect)>>
    /\ UNCHANGED <<ssPc, ssValid, ssWorkerCount, ssMaster, ssStorageState, ssError,
                   ssAttempts, ssProbe, ssExported>>
    /\ UNCHANGED <<scrapeVars, wkVars, partVars, trackerVars, schedVars, serverVars, prioVars,
                   jobVars, scoreVars, normVars, pzVars, tmVars>>

\* runWorker: page.goto of a detail page in the worker's own context
Navigate(w, effect) ==
    /\ ssWorkers[w].pc = "open"
    /\ ssWorkers[w].steps < MaxWorkerSteps
    /\ ssWorkers' = [ssWorkers EXCEPT
                        ![w].steps = @ + 1,
                        ![w].context = AfterResponse(@, w, effect)]
    /\ UNCHANGED <<ssPc, ssValid, ssWorkerCount, ssMaster, ssCookies, ssStorageState, ssError,
                   ssAttempts, ssProbe, ssExported>>
    /\ UNCHANGED <<scrapeVars, wkVars, partVars, trackerVars, schedVars, serverVars, prioVars,
                   jobVars, scoreVars, normVars, pzVars, tmVars>>

\* runWorker: the finally block closes the worker's browser
CloseWorker(w) ==
    /\ ssWorkers[w].pc = "open"
    /\ ssWorkers' = [ssWorkers EXCEPT ![w].pc = "closed", ![w].context = {}]
    /\ UNCHANGED <<ssPc, ssValid, ssWorkerCount, ssMaster, ssCookies, ssStorageState, ssError,
                   ssAttempts, ssProbe, ssExported>>
    /\ UNCHANGED <<scrapeVars, wkVars, partVars, trackerVars, schedVars, serverVars, prioVars,
                   jobVars, scoreVars, normVars, pzVars, tmVars>>

\* fastScrapeProperties: the finally block, scraper.close()
CloseScraper ==
    /\ \/ ssPc = "failed"
       \/ ssPc = "scraping" /\ \A w \in DOMAIN ssWorkers : ssWorkers[w].pc = "closed"
    /\ ssPc' = "closed"
    /\ ssMaster' = {}
    /\ UNCHANGED <<ssValid, ssWorkerCount, ssCookies, ssStorageState, ssError, ssAttempts,
                   ssProbe, ssWorkers, ssExported>>
    /\ UNCHANGED <<scrapeVars, wkVars, partVars, trackerVars, schedVars, serverVars, prioVars,
                   jobVars, scoreVars, normVars, pzVars, tmVars>>

SessNext ==
    \/ SubmitCredentials
    \/ \E outcome \in {"marker", "absent", "timeout"} : ProbeDetailPage(outcome)
    \/ LaunchWorkers
    \/ \E w \in DOMAIN ssWorkers : NewContext(w)
    \/ \E w \in DOMAIN ssWorkers, effect \in {"none", "reissue", "expire"} : Navigate(w, effect)
    \/ \E w \in DOMAIN ssWorkers : CloseWorker(w)
    \/ CloseScraper

\* ============================================================== recurring jobs
\* The job table of one UpdateScheduler from scheduleUpdates on: scheduleJob, the
\* setInterval timers, stopAllJobs and the SIGINT handler. An update cycle is followed
\* through the steps performQuickUpdate / performFullUpdate await, one after the other.
MaxJobCycles == 2

\* closing times of the listings properties.json may hold, one for each priority
JobListings == {<<0 - 5>>, <<30>>, <<120>>, <<300>>, <<600>>}

\* the steps a cycle of the type awaits, in order
CycleSteps(type) ==
    IF type = "quick" THEN <<"scrapeAuctionData", "updateBidTracking">>
    ELSE <<"scrapeAuctionData", "updateBidTracking", "updateAnalytics", "cleanOldSnapshots">>

JobInit ==
    /\ jbNow = 0
    /\ jbFile \in SUBSET JobListings
    /\ jbJobs = <<>>
    /\ jbCycles = {}
    /\ jbStarted = 0
    /\ jbPc = "scheduling"
    /\ jbDone = {}
    /\ jbStop = <<>>

JobIdle ==
    /\ jbNow = 0
    /\ jbFile = {}
    /\ jbJobs = <<>>
    /\ jbCycles = {}
    /\ jbStarted = 0
    /\ jbPc = "off"
    /\ jbDone = {}
    /\ jbStop = <<>>

\* scheduleJob(jobId, interval) called at the time t
ScheduleJob(jobId, interval, t) ==
    [interval |-> interval, type |-> JobType(jobId), due |-> t + interval]

\* scheduleUpdates: the listings of the file are grouped by priority and a job is
\* scheduled for every priority of this.intervals that has a listing and no job;
\* startMonitoring then registers the SIGINT handler
JobScheduleUpdates ==
    /\ jbPc = "scheduling"
    /\ LET groups == {GetUpdatePriority(closes, jbNow) : closes \in jbFile}
           new == {p \in DOMAIN Intervals : p \in groups /\ p \notin DOMAIN jbJobs}
       IN jbJobs' = [p \in (DOMAIN jbJobs) \cup new |->
                        IF p \in new THEN ScheduleJob(p, Intervals[p], jbNow) ELSE jbJobs[p]]
    /\ jbPc' = "monitoring"
    /\ UNCHANGED <<jbNow, jbFile, jbCycles, jbStarted, jbDone, jbStop>>
    /\ UNCHANGED <<scrapeVars, wkVars, partVars, trackerVars, schedVars, serverVars, prioVars,
              scoreVars, normVars, sessVars, pzVars, tmVars>>

\* time passes until the next timer is due
JobTick ==
    /\ jbPc \in {"monitoring", "stopped"}
    /\ DOMAIN jbJobs # {}
    /\ \A p \in DOMAIN jbJobs : jbJobs[p].due > jbNow
    /\ jbNow' = jbJobs[CHOOSE p \in DOMAIN jbJobs :
                           \A q \in DOMAIN jbJobs : jbJobs[p].due <= jbJobs[q].due].due
    /\ UNCHANGED <<jbFile, jbJobs, jbCycles, jbStarted, jbPc, jbDone, jbStop>>
    /\ UNCHANGED <<scrapeVars, wkVars, partVars, trackerVars, schedVars, serverVars, prioVars,
              scoreVars, normVars, sessVars, pzVars, tmVars>>

\* the setInterval callback of a job runs: it starts performQuickUpdate or
\* performFullUpdate according to job.type
JobTimerFires(p) ==
    /\ jbPc \in {"monitoring", "stopped"}
    /\ p \in DOMAIN jbJobs
    /\ jbJobs[p].due <= jbNow
    /\ jbStarted < MaxJobCycles
    /\ jbCycles' = jbCycles \cup {[n |-> jbStarted + 1, job |-> p, type |-> jbJobs[p].type,
                                   at |-> jbNow, steps |-> <<>>]}
    /\ jbStarted' = jbStarted + 1
    /\ jbJobs' = [jbJobs EXCEPT ![p].due = @ + jbJobs[p].interval]
    /\ UNCHANGED <<jbNow, jbFile, jbPc, jbDone, jbStop>>
    /\ UNCHANGED <<scrapeVars, wkVars, partVars, trackerVars, schedVars, serverVars, prioVars,
              scoreVars, normVars, sessVars, pzVars, tmVars>>

\* the step an update cycle awaits settles: the cycle goes on to its next step, or
\* ends after its last step, or ends in its catch block when the step threw
JobCycleStep(c, ok) ==
    /\ jbPc \in {"monitoring", "stopped"}
    /\ c \in jbCycles
    /\ LET step == CycleSteps(c.type)[Len(c.steps) + 1]
           ran == [c EXCEPT !.steps = Append(@, step)]
       IN IF ok /\ Len(ran.steps) < Len(CycleSteps(c.type))
          THEN /\ jbCycles' = (jbCycles \ {c}) \cup {ran}
               /\ UNCHANGED jbDone
          ELSE /\ jbCycles' = jbCycles \ {c}
               /\ jbDone' = jbDone \cup {[n |-> c.n, job |-> c.job, type |-> c.type,
                                          at |-> c.at,
                                          steps |-> IF ok THEN ran.steps ELSE c.steps,
                                          success |-> ok]}
    /\ UNCHANGED <<jbNow, jbFile, jbJobs, jbStarted, jbPc, jbStop>>
    /\ UNCHANGED <<scrapeVars, wkVars, partVars, trackerVars, schedVars, serverVars, prioVars,
              scoreVars, normVars, sessVars, pzVars, tmVars>>

\* a stopAllJobs that also drops the update cycles in flight
StopAllJobsCancels(exit) ==
    /\ jbPc = "monitoring"
    /\ jbJobs' = <<>>
    /\ jbCycles' = {}
    /\ jbStop' = <<[started |-> jbStarted, inFlight |-> {c.n : c \in jbCycles}]>>
    /\ jbPc' = IF exit THEN "exited" ELSE "stopped"
    /\ UNCHANGED <<jbNow, jbFile, jbStarted, jbDone>>
    /\ UNCHANGED <<scrapeVars, wkVars, partVars, trackerVars, schedVars, serverVars, prioVars,
              scoreVars, normVars, sessVars, pzVars, tmVars>>

\* stopAllJobs(): every timer is cleared and this.activeJobs is emptied. It is called
\* on the scheduler object, or by the SIGINT handler, which then ends the process
\* (exit): nothing of the process runs after that
StopAllJobs(exit) ==
    /\ jbPc = "monitoring"
    /\ jbJobs' = <<>>
    /\ jbStop' = <<[started |-> jbStarted, inFlight |-> {c.n : c \in jbCycles}]>>
    /\ jbPc' = IF exit THEN "exited" ELSE "stopped"
    /\ UNCHANGED <<jbNow, jbFile, jbCycles, jbStarted, jbDone>>
    /\ UNCHANGED <<scrapeVars, wkVars, partVars, trackerVars, schedVars, serverVars, prioVars,
              scoreVars, normVars, sessVars, pzVars, tmVars>>

JobNext ==
    \/ JobScheduleUpdates
    \/ JobTick
    \/ \E p \in Priorities : JobTimerFires(p)
    \/ \E c \in jbCycles, ok \in BOOLEAN : JobCycleStep(c, ok)
    \/ \E exit \in BOOLEAN : StopAllJobs(exit)

\* ---- the timers behind this.activeJobs
MaxScheduleCalls == 3

\* a scheduleUpdates that schedules every priority with a listing, job or no job
NeedsJobAlways(groups, active, p) == p \in groups

\* if (priorityGroups[priority].length > 0 && !this.activeJobs.has(priority))
NeedsJob(groups, active, p) == p \in groups /\ p \notin DOMAIN active

\* setInterval(...) of scheduleJob: the timer made for the tier by the call
TimerOf(tier, call) == [tier |-> tier, call |-> call]

TmInit ==
    /\ tmJobs = <<>>
    /\ tmTimers = {}
    /\ tmCalls = 0
    /\ tmStops = 0

TmIdle ==
    /\ tmJobs = <<>>
    /\ tmTimers = {}
    /\ tmCalls = MaxScheduleCalls
    /\ tmStops = 0

\* scheduleUpdates() with `file` the listings read from properties.json: for every
\* priority of this.intervals, scheduleJob sets a timer and puts the job in the map
TmScheduleUpdates(file) ==
    /\ tmCalls < MaxScheduleCalls
    /\ LET groups == {GetUpdatePriority(closes, 0) : closes \in file}
           new == {p \in DOMAIN Intervals : NeedsJob(groups, tmJobs, p)}
       IN /\ tmTimers' = tmTimers \cup {TimerOf(p, tmCalls + 1) : p \in new}
          /\ tmJobs' = [p \in (DOMAIN tmJobs) \cup new |->
                           IF p \in new THEN TimerOf(p, tmCalls + 1) ELSE tmJobs[p]]
    /\ tmCalls' = tmCalls + 1
    /\ UNCHANGED tmStops
    /\ UNCHANGED <<scrapeVars, wkVars, partVars, trackerVars, schedVars, serverVars, prioVars,
                   jobVars, scoreVars, normVars, sessVars, pzVars>>

\* stopAllJobs(): clearInterval(job.timer) for the jobs of the map, then clear()
TmStopAllJobs ==
    /\ DOMAIN tmJobs # {}
    /\ tmTimers' = tmTimers \ {tmJobs[p] : p \in DOMAIN tmJobs}
    /\ tmJobs' = <<>>
    /\ tmStops' = tmStops + 1
    /\ UNCHANGED tmCalls
    /\ UNCHANGED <<scrapeVars, wkVars, partVars, trackerVars, schedVars, serverVars, prioVars,
                   jobVars, scoreVars, normVars, sessVars, pzVars>>

TimerNext ==
    \/ \E file \in SUBSET JobListings : TmScheduleUpdates(file)
    \/ TmStopAllJobs

\* ================================================================= claims

\* C1: when a worker of the call ended abnormally (exit code 1, with or without an
\* 'error' event), scrapeRange has not returned a result list, whatever the other
\* workers did; and once the events of that worker are handled the call has failed.
C1_AllOrNothing ==
    \A w \in DOMAIN jobs :
        wpc[w] = "crashed" =>
            /\ srState # "returned"
            /\ (exitCode[w] = <<>> /\ ~errEvent[w]) => srState = "failed"

\* a worker crashed, another one finished and resolved, and the call failed
C1_Witness ==
    \E w \in DOMAIN jobs, v \in DOMAIN jobs :
        /\ wpc[w] = "crashed"
        /\ wpc[v] = "exited" /\ promise[v] = "resolved"
        /\ srState = "failed"

\* C2: the sub-ranges launched for [startId, endId] are numbered 0..k, start at
\* startId, end at endId, follow each other without gap or overlap, are non-empty,
\* and every ID of the range lies in exactly one of them.
C2_ExactCover ==
    pOut # <<>> =>
        LET L == DOMAIN pOut
            last == Cardinality(L) - 1
        IN /\ L = 0..last
           /\ pOut[0].startId = pIn.startId
           /\ pOut[last].endId = pIn.endId
           /\ \A i \in L : pOut[i].startId <= pOut[i].endId
           /\ \A i \in L \ {0} : pOut[i].startId = pOut[i - 1].endId + 1
           /\ \A id \in pIn.startId..pIn.endId :
                  Cardinality({i \in L : pOut[i].startId <= id /\ id <= pOut[i].endId}) = 1

\* [250900000, 250900029] across 3 workers: three sub-ranges of ten IDs
C2_Witness ==
    /\ pIn = [startId |-> 250900000, endId |-> 250900029, workerCount |-> 3]
    /\ DOMAIN pOut = {0, 1, 2}
    /\ pOut[0] = [startId |-> 250900000, endId |-> 250900009]
    /\ pOut[1] = [startId |-> 250900010, endId |-> 250900019]
    /\ pOut[2] = [startId |-> 250900020, endId |-> 250900029]

\* C3: for every ID whose iteration threw, the worker posted an error message naming
\* the ID, directly followed by the progress message of that ID, and went on to the
\* next ID; a worker ends abnormally only by a failure of the whole worker, a worker
\* that ended normally posted progress for every ID of its range, and the call fails
\* only if a whole worker failed.
C3_PerIdErrorIsLocal ==
    /\ \A w \in DOMAIN jobs :
          /\ \A i \in thrown[w] :
                /\ nextId[w] > i
                /\ \E k \in 1..(Len(sent[w]) - 1) :
                      /\ sent[w][k] = ErrorMsg(i)
                      /\ sent[w][k + 1] = ProgressMsg(i, JobLen(w))
          /\ wpc[w] = "crashed" => fault[w]
          /\ wpc[w] = "exited" =>
                \A i \in jobs[w].startId..jobs[w].endId :
                    SelectCount(sent[w], ProgressMsg(i, JobLen(w))) = 1
    /\ srState = "failed" => \E w \in DOMAIN jobs : fault[w]

\* a worker met an exception on the first of two IDs, ended normally, and the call
\* returned
C3_Witness ==
    /\ srState = "returned"
    /\ \E w \in DOMAIN jobs :
          /\ jobs[w].startId \in thrown[w]
          /\ jobs[w].endId > jobs[w].startId
          /\ wpc[w] = "exited"

\* C4: an ID whose page shows the not-found marker, or whose status contains
\* "removed" in any letter case, gets no result message and exactly one progress
\* message, which carries the ID and the length of the worker's range; for the range
\* [1,1] with the marker the worker posts progress(current 1, total 1) and no result.
C4_RemovedStatuses == {"Removed from Auction", "REMOVED"}

C4_SkippedIds ==
    \A k \in 1..Len(wkPages) :
        LET id == wkJob.startId + k - 1
            n == wkJob.endId - wkJob.startId + 1
        IN (wkPages[k].nav = "ok" /\ (wkPages[k].marker \/ wkPages[k].status \in C4_RemovedStatuses)) =>
              /\ SelectCount(wkOut, ResultMsg(id)) = 0
              /\ SelectCount(wkOut, ProgressMsg(id, n)) = 1
              /\ \A j \in 1..Len(wkOut) :
                    (wkOut[j].type = "progress" /\ wkOut[j].id = id) => wkOut[j].total = n

\* the range [1,1] with the not-found marker: one progress message, current 1, total 1
C4_Witness ==
    /\ wkJob = [startId |-> 1, endId |-> 1]
    /\ wkPc = "exited"
    /\ wkPages = <<[nav |-> "ok", marker |-> TRUE, hasData |-> FALSE, status |-> Null]>>
    /\ wkOut = <<[type |-> "progress", id |-> 1, total |-> 1], CompleteMsg>>

\* C5 (as claimed): during a call and at its return, completed is the sum over the
\* workers of this call of the progress messages handled, and at a successful
\* return completed = total.
C5_CompletedIsSumOfRun ==
    srState # "idle" =>
        /\ progress.completed = SumOver(handled, DOMAIN jobs)
        /\ srState = "returned" => progress.completed = progress.total

\* C6: the progress state is a function of how many progress messages of each worker
\* were handled, not of their order (each launched worker's current is its count,
\* completed is the sum of all currents once a message was handled), and completed
\* never decreases during a call.
C6_StateOfCounts ==
    LET wp == progress.workersProgress
        stale == DOMAIN wp \ DOMAIN jobs
    IN /\ \A w \in DOMAIN jobs : wp[w].current = handled[w]
       /\ progress.completed =
             IF SumOver(handled, DOMAIN jobs) = 0 THEN 0
             ELSE SumOver(handled, DOMAIN jobs) + SumOver([k \in stale |-> wp[k].current], stale)

C6_Monotone ==
    runs' = runs =>
        /\ progress'.completed >= progress.completed
        /\ progress'.total = progress.total

C6_Commutative == [](C6_StateOfCounts) /\ [][C6_Monotone]_vars

\* two workers have each had a progress message handled
C6_Witness ==
    /\ DOMAIN jobs = {0, 1}
    /\ handled[0] = 1 /\ handled[1] = 1
    /\ progress.completed = 2

\* C7: recordSnapshot is idempotent on identical input: when a call is given the same
\* listing set as the call before it, it returns newChanges = 0 and every listing's
\* metrics (totalChanges, bidVelocity, lastChangeHours, totalIncrease,
\* totalIncreasePercent, competitionScore) are what they were after the call before.
C7_Idempotent ==
    (btCalls >= 2 /\ btProps = btPrevProps /\ Returned(btResult)) =>
        /\ btResult.newChanges = 0
        /\ \A id \in DOMAIN btProps :
              bidHistory[id].metrics = btPrevHistory[id].metrics

\* C7, the part that holds: a repeated call counts no new change.
C7_NoNewChanges ==
    (btCalls >= 2 /\ btProps = btPrevProps /\ Returned(btResult)) => btResult.newChanges = 0

\* C8: in an update cycle the Bid Tracker ingests the listing set saved by the scrape
\* of that same cycle: after the ingestion of a cycle whose scrape saved its results,
\* the listings ingested are the saved ones, the snapshot appended to each saved
\* listing carries the bid the scrape saw, and every changed bid is counted.
C8_IngestsFreshScrape ==
    (ingest.n > 0 /\ ingest.saved) =>
        /\ btProps = ingest.scraped
        /\ \A id \in DOMAIN ingest.scraped :
              /\ id \in DOMAIN bidHistory
              /\ Last(bidHistory[id].history).currentBid = EffectiveBid(ingest.scraped[id])
        /\ ingest.newChanges = NewChanges(btPrevHistory, ingest.scraped)

C9_JobsFixed ==
    [][schedPc = "monitoring" => DOMAIN activeJobs' = DOMAIN activeJobs]_vars

\* C10: two update cycles of the same recurring job are never in flight together.
C10_NoOverlap ==
    \A c1 \in cycles, c2 \in cycles : c1.job = c2.job => c1 = c2

\* C11: at most one recordSnapshot pass is in progress at any time, and the history
\* file never has two writes in flight.
C11_SinglePass ==
    /\ Cardinality({c \in cycles : c.pc \in {"writingSnapshot", "writingHistory"}}) <= 1
    /\ Cardinality({c \in cycles : c.pc = "writingHistory"}) <= 1

\* C12: a scrape run that fails at run level (authentication failure, worker crash)
\* is reported upward: its update cycle ingests no snapshot and is recorded with
\* success = false and an error.
C12_RunFailureReported ==
    /\ \A c \in cycles : c.child = "fatal" => ~c.ingested
    /\ \A i \in DOMAIN updateHistory :
          verdicts[i].child = "fatal" =>
              /\ ~verdicts[i].ingested
              /\ ~updateHistory[i].success
              /\ updateHistory[i].error # ""

\* C13: a bundle listing (biddingCloses absent or "N/A") never appears in the Bid
\* Tracker: no ListingHistory entry exists for it, whichever way the listings reach
\* recordSnapshot.
C13_NoBundleTracked ==
    \A id \in DOMAIN bidHistory : SiteCloses[id] # <<>>

\* C14: a bundle listing is never fed into the urgency scheduler: scheduleUpdates
\* classifies no bundle into a priority, and every recurring job has a listing with
\* a closing time in its priority.
C14_NoBundleScheduled ==
    /\ \A id \in DOMAIN priorityGroups : SiteCloses[id] # <<>>
    /\ \A p \in DOMAIN activeJobs :
          \E id \in DOMAIN priorityGroups : priorityGroups[id] = p /\ SiteCloses[id] # <<>>

\* C15: when an update cycle that recorded a snapshot ends successfully, quick or full,
\* at most 100 snapshot files remain in the snapshots directory, and no file that
\* was removed is newer than a file that was kept.
C15_SnapshotsPruned ==
    [][(/\ Len(updateHistory') = Len(updateHistory) + 1
        /\ updateHistory'[Len(updateHistory')].success
        /\ verdicts'[Len(verdicts')].ingested)
       => /\ Cardinality(snapshotFiles') <= KeepSnapshots
          /\ \A f \in snapshotFiles' : \A g \in SnapshotsAtStart \ snapshotFiles' : g < f]_vars

\* number of snapshots held for the listing id in the history hist
HistoryLen(hist, id) == IF id \in DOMAIN hist THEN Len(hist[id].history) ELSE 0

\* C16: a ListingHistory is append-only and never pruned: no step removes an auctionId
\* or changes or removes a snapshot already appended, a recordSnapshot call appends
\* exactly one snapshot for each listing of its input and none for the others, and
\* cleanOldSnapshots leaves the histories as they are.
C16_AppendOnly ==
    [][/\ \A id \in DOMAIN bidHistory :
             /\ id \in DOMAIN bidHistory'
             /\ SubSeq(bidHistory'[id].history, 1, HistoryLen(bidHistory, id))
                    = bidHistory[id].history
       /\ btCalls' = btCalls + 1 =>
             \A id \in DOMAIN bidHistory' :
                 HistoryLen(bidHistory', id) =
                     HistoryLen(bidHistory, id) + (IF id \in DOMAIN btProps' THEN 1 ELSE 0)
       /\ btCalls' = btCalls => bidHistory' = bidHistory]_vars

\* two recordSnapshot calls have appended to the same listing and cleanOldSnapshots has
\* removed old snapshot files in between or after
C16_Witness ==
    /\ btCalls = 2
    /\ \E id \in DOMAIN bidHistory : Len(bidHistory[id].history) = 2
    /\ Cardinality(snapshotFiles) = KeepSnapshots
    /\ \E f \in snapshotFiles : f > 0

\* C17: when the write of the snapshot file or of the history file fails, recordSnapshot
\* rejects instead of returning a result, and the in-memory history keeps the
\* snapshots appended in that pass, ahead of the persisted history.
C17_FailureSurfaced ==
    /\ (btCalls > 0 /\ historyFile # bidHistory) => ~Returned(btResult)
    /\ (btCalls > 0 /\ ~Returned(btResult)) =>
          \A id \in DOMAIN btProps :
              /\ HistoryLen(bidHistory, id) = HistoryLen(btPrevHistory, id) + 1
              /\ Last(bidHistory[id].history).currentBid = EffectiveBid(btProps[id])
              /\ HistoryLen(historyFile, id) < HistoryLen(bidHistory, id)

\* the write of the history file failed in a call that followed a successful one
C17_Witness ==
    /\ btCalls = 2
    /\ btResult = Rejected("historyWriteFails")
    /\ historyFile # <<>>
    /\ \E id \in DOMAIN btProps : HistoryLen(bidHistory, id) = 2

\* C18: after a scrape run started through the server has failed (initialize or
\* login, a worker, or a save), the status the status endpoint returns has
\* isRunning = false and a non-empty errors list, and the start request of the run
\* was answered with success: the failure is not raised to its caller.
C18_FailureInStatus ==
    /\ svLast = "failed" =>
          /\ ~scrapingStatus.isRunning
          /\ scrapingStatus.errors # <<>>
    /\ \A r \in RunIds :
          svRun[r].outcome \notin {"none", "ok"} =>
              /\ svRun[r].response = "started"
              /\ svRun[r].pc \in {"closing", "done", "unhandledRejection"}

\* a run has failed at its final save and is over
C18_Witness ==
    /\ svLast = "failed"
    /\ \E r \in RunIds : svRun[r].pc = "done" /\ svRun[r].outcome = "save failed"
    /\ scrapingStatus.errors = <<"save failed">>

\* C19: every per-ID scrape failure a worker reported during a run of the parallel
\* scraper is in the errors list of the scrape status when the run has completed
\* successfully.
C19_IdErrorsVisible ==
    (svKind = "fast" /\ svStarted > 0 /\ svRun[svStarted].outcome = "ok") =>
        Len(scrapingStatus.errors) >= svRun[svStarted].reported

C21_JobTable ==
    /\ \A p \in DOMAIN jbJobs :
          /\ p \in {"immediate", "urgent", "regular", "standard"}
          /\ jbJobs[p].interval = (CASE p = "immediate" -> 1 [] p = "urgent" -> 5
                                     [] p = "regular" -> 10 [] OTHER -> 60)
          /\ jbJobs[p].type = (IF p \in {"immediate", "urgent"} THEN "quick" ELSE "full")
          /\ jbJobs[p].due % jbJobs[p].interval = 0
          /\ jbJobs[p].due > jbNow - jbJobs[p].interval
    /\ \A c \in jbCycles \cup jbDone :
          /\ c.type = (IF c.job \in {"immediate", "urgent"} THEN "quick" ELSE "full")
          /\ c.at % (CASE c.job = "immediate" -> 1 [] c.job = "urgent" -> 5
                       [] c.job = "regular" -> 10 [] OTHER -> 60) = 0
          /\ c.type = "quick" => \A i \in DOMAIN c.steps :
                                    c.steps[i] \in {"scrapeAuctionData", "updateBidTracking"}
    /\ \A d \in jbDone :
          (d.type = "full" /\ d.success) =>
              \E i \in DOMAIN d.steps : d.steps[i] = "updateAnalytics"
    /\ jbPc = "monitoring" =>
          \A closes \in jbFile :
              (closes[1] > 0) => GetUpdatePriority(closes, 0) \in DOMAIN jbJobs

\* the regular job has fired after ten minutes and its full cycle has succeeded, next
\* to a quick cycle of the urgent job
C21_Witness ==
    /\ \E d \in jbDone : d.job = "regular" /\ d.at = 10 /\ d.success
                           /\ Len(d.steps) = 4
    /\ \E d \in jbDone : d.job = "urgent" /\ d.success /\ Len(d.steps) = 2

\* C22: after stopAllJobs, activeJobs is empty and no timer starts an update cycle any
\* more; the cycles that were in flight when it was called are not cancelled by it:
\* each is still in flight or has run to its end.
C22_StopAllJobs ==
    jbStop # <<>> =>
        /\ jbJobs = <<>>
        /\ jbStarted = jbStop[1].started
        /\ \A c \in jbCycles : c.n \in jbStop[1].inFlight
        /\ \A n \in jbStop[1].inFlight :
              \E c \in jbCycles \cup jbDone : c.n = n

\* stopAllJobs was called with two cycles in flight; one has run to its end since
C22_Witness ==
    /\ jbPc = "stopped"
    /\ Cardinality(jbStop[1].inFlight) = 2
    /\ \E d \in jbDone : d.n \in jbStop[1].inFlight /\ d.success
    /\ \E c \in jbCycles : c.n \in jbStop[1].inFlight

\* the metrics of an entry without activity
QuietMetrics ==
    [totalChanges |-> 0, bidVelocity |-> Rat(0, 1), lastChangeHours |-> NoValue,
     totalIncreasePercent |-> Rat(0, 1)]

\* C23: the competition score lies in 0..100 and is the sum, capped at 100, of five
\* contributions, each the score the function gives to one factor alone: the number
\* of changes (at most 30), the velocity (at most 25), the recency (at most 20), the
\* total increase percent (at most 15) and the spike bonus (0 or 10); for 12 changes,
\* 6 changes a day, a last change half an hour ago, 60 percent of total increase and
\* a single step of 25 percent it is 100.
C23_ScoreTiers ==
    scScore # <<>> =>
        LET m == scMetrics
            t1 == CompetitionScore(<<>>, [QuietMetrics EXCEPT !.totalChanges = m.totalChanges])
            t2 == CompetitionScore(<<>>, [QuietMetrics EXCEPT !.bidVelocity = m.bidVelocity])
            t3 == CompetitionScore(<<>>, [QuietMetrics EXCEPT
                                            !.lastChangeHours = m.lastChangeHours])
            t4 == CompetitionScore(<<>>, [QuietMetrics EXCEPT
                                            !.totalIncreasePercent = m.totalIncreasePercent])
            t5 == CompetitionScore(scHistory, QuietMetrics)
        IN /\ scScore[1] \in 0..100
           /\ t1 \in 0..30 /\ t2 \in 0..25 /\ t3 \in 0..20 /\ t4 \in 0..15 /\ t5 \in {0, 10}
           /\ scScore[1] = Min(t1 + t2 + t3 + t4 + t5, 100)
           /\ (/\ m.totalChanges = 12 /\ m.bidVelocity = Rat(6, 1)
               /\ m.lastChangeHours = Rat(1, 2) /\ m.totalIncreasePercent = Rat(60, 1)
               /\ \E i \in 2..Len(scHistory) : scHistory[i].changePercent = Rat(25, 1))
              => scScore[1] = 100

C23_Witness ==
    /\ scMetrics.totalChanges = 12 /\ scMetrics.bidVelocity = Rat(6, 1)
    /\ scMetrics.lastChangeHours = Rat(1, 2) /\ scMetrics.totalIncreasePercent = Rat(60, 1)
    /\ Len(scHistory) = 14 /\ scHistory[13].changePercent = Rat(25, 1)
    /\ scScore = <<100>>

\* the positions of a history whose bid differs from the bid of the snapshot before
ChangedAt(h) == {i \in 2..Len(h) : h[i].currentBid # h[i - 1].currentBid}

\* C24: the lastChangeHours of every listing is null when no two adjacent snapshots of
\* its history differ in bid, and otherwise the time between the latest snapshot that
\* differs from its predecessor and the pass that computed the metrics.
C24_LastChangeHours ==
    \A id \in DOMAIN bidHistory :
        LET h == bidHistory[id].history
            last == CHOOSE i \in ChangedAt(h) : \A j \in ChangedAt(h) : j <= i
        IN bidHistory[id].metrics.lastChangeHours =
              IF ChangedAt(h) = {} THEN NoValue
              ELSE Rat(Last(h).timestamp - h[last].timestamp, MinutesPerHour)

\* the part of C24 about the listings whose bid changed
C24_AfterAChange ==
    \A id \in DOMAIN bidHistory :
        LET h == bidHistory[id].history
            last == CHOOSE i \in ChangedAt(h) : \A j \in ChangedAt(h) : j <= i
        IN ChangedAt(h) # {} =>
              bidHistory[id].metrics.lastChangeHours =
                  Rat(Last(h).timestamp - h[last].timestamp, MinutesPerHour)

\* C25: after every recordSnapshot pass the totalChanges of every listing is the
\* number of adjacent pairs of snapshots of its history whose bids differ.
C25_TotalChanges ==
    \A id \in DOMAIN bidHistory :
        bidHistory[id].metrics.totalChanges = Cardinality(ChangedAt(bidHistory[id].history))

C25_Witness ==
    /\ btCalls = 3
    /\ \E id \in DOMAIN bidHistory :
          LET h == bidHistory[id].history
          IN /\ Len(h) = 3 /\ h[1].currentBid # h[2].currentBid /\ h[2].currentBid = h[3].currentBid
             /\ bidHistory[id].metrics.totalChanges = 1
    /\ \E id \in DOMAIN bidHistory :
          LET h == bidHistory[id].history
          IN /\ Len(h) = 3 /\ h[1].currentBid # h[2].currentBid /\ h[3].currentBid = h[1].currentBid
             /\ bidHistory[id].metrics.totalChanges = 2

\* C26: in every record a worker emits, hasBids is true exactly when the numeric
\* current bid is greater than 0 and the raw current bid is neither "NONE" nor empty
\* nor missing.
C26_HasBids ==
    nmKind = "worker" /\ nmOut # <<>> =>
        (nmOut[1].hasBids = "true" <=>
            /\ nmOut[1].currentBidNumeric[1].n > 0
            /\ nmRaw.currentBid \notin {<<>>, <<<<>>>>, <<TextNone>>})

\* what the worker's hasBids is: true exactly when the raw current bid is a
\* non-empty text other than "$0.00"
C26_HasBidsAsCoded ==
    nmKind \in {"worker", "scraper"} /\ nmOut # <<>> =>
        (nmOut[1].hasBids = "true" <=>
            nmRaw.currentBid \notin {<<>>, <<<<>>>>, <<TextZero>>})

\* C27: every numeric field computed from a raw text is the number the text reads as
\* once '$' and ',' are removed: 1234.56 for "$1,234.56", 500 for "$500.00", and 0
\* for the empty string, null, "N/A" and every other text without a number.
C27_Normalization ==
    nmOut # <<>> =>
        \A f \in {"currentBid", "minimumBid", "sevValue"} :
            LET raw == nmRaw[f]
                num == IF f = "currentBid" THEN nmOut[1].currentBidNumeric
                       ELSE IF f = "minimumBid" THEN nmOut[1].minimumBidNumeric
                       ELSE nmOut[1].sevValueNumeric
            IN /\ nmKind \in {"worker", "call"} => num # <<>>
               /\ num # <<>> =>
                     /\ IsValue(num[1])
                     /\ raw = <<Text1234>> => num[1] = Rat(123456, 100)
                     /\ raw = <<Text500>> => num[1] = Rat(500, 1)
                     /\ raw \in {<<>>, <<<<>>>>, <<TextNA>>, <<TextNone>>, <<TextZero>>,
                                 <<TextZeroShort>>} => num[1] = Rat(0, 1)

C27_Witness ==
    /\ nmKind = "call"
    /\ nmRaw = [currentBid |-> <<Text1234>>, minimumBid |-> <<>>, sevValue |-> <<TextNA>>]
    /\ nmOut # <<>>
    /\ nmOut[1].currentBidNumeric = <<Rat(123456, 100)>>
    /\ nmOut[1].minimumBidNumeric = <<Rat(0, 1)>>
    /\ nmOut[1].sevValueNumeric = <<Rat(0, 1)>>

\* number of IDs of a sub-range
RangeSize(r) == r.endId - r.startId + 1

\* C28 as stated: a range of at least workerCount IDs is split into exactly
\* workerCount contiguous sub-ranges, one worker each, all of the same size except the
\* last one, which is at least as large as the others.
C28_ExactlyWorkerCount ==
    pOut # <<>> /\ RangeSize(pIn) >= pIn.workerCount =>
        LET last == pIn.workerCount - 1
        IN /\ DOMAIN pOut = 0..last
           /\ \A i \in DOMAIN pOut \ {0} : pOut[i].startId = pOut[i - 1].endId + 1
           /\ \A i, j \in (DOMAIN pOut) \ {last} : RangeSize(pOut[i]) = RangeSize(pOut[j])
           /\ \A i \in DOMAIN pOut : RangeSize(pOut[last]) >= RangeSize(pOut[i])

\* C28: a range of n >= workerCount IDs is split into k contiguous sub-ranges, one
\* worker each, of r = ceil(n / workerCount) IDs each except the last one, which
\* holds the 1..r IDs that are left; k = ceil(n / r) is at most workerCount, and is
\* workerCount when workerCount divides n.
C28_Partition ==
    pOut # <<>> /\ RangeSize(pIn) >= pIn.workerCount =>
        LET n == RangeSize(pIn)
            r == Ceil(n, pIn.workerCount)
            k == Cardinality(DOMAIN pOut)
        IN /\ DOMAIN pOut = 0..(k - 1)
           /\ k = Ceil(n, r) /\ k >= 1 /\ k <= pIn.workerCount
           /\ n % pIn.workerCount = 0 => k = pIn.workerCount
           /\ \A i \in DOMAIN pOut : pOut[i].startId = pIn.startId + i * r
           /\ \A i \in 0..(k - 2) : RangeSize(pOut[i]) = r
           /\ RangeSize(pOut[k - 1]) = n - (k - 1) * r
           /\ RangeSize(pOut[k - 1]) \in 1..r

C28_Witness ==
    /\ pIn = [startId |-> 1, endId |-> 5, workerCount |-> 4]
    /\ DOMAIN pOut = {0, 1, 2}
    /\ pOut[0] = [startId |-> 1, endId |-> 2]
    /\ pOut[1] = [startId |-> 3, endId |-> 4]
    /\ pOut[2] = [startId |-> 5, endId |-> 5]

\* C29: the session state is saved, and the login succeeds, only if the probe of the
\* detail page found the marker; when the marker is absent the login fails with the
\* login error, nothing is saved, the credentials were submitted once and are not
\* submitted again, and no worker is launched.
C29_LoginProbe ==
    /\ (ssCookies # <<>> \/ ssStorageState # <<>> \/ ssExported # <<>>) => ssProbe = "marker"
    /\ (ssPc \in {"ready", "scraping"} \/ ssWorkers # <<>>) => ssProbe = "marker"
    /\ ssProbe = "absent" =>
          /\ ssPc \in {"failed", "closed"}
          /\ ssError = <<LoginFailedMessage>>
          /\ ssCookies = <<>> /\ ssStorageState = <<>>
          /\ ssAttempts = 1
          /\ ssWorkers = <<>>

C29_Witness ==
    /\ ssPc = "closed"
    /\ ssProbe = "absent"
    /\ ssError = <<LoginFailedMessage>>
    /\ ssAttempts = 1
    /\ ssWorkers = <<>>

\* C30: once workers are launched, the session state the coordinator stores is the
\* one the login saved, and the session state every worker was seeded with is that
\* same state, whatever the workers have done in their own contexts.
C30_SessionReadOnly ==
    ssWorkers # <<>> =>
        /\ ssExported # <<>>
        /\ ssCookies = <<ssExported[1].cookies>>
        /\ ssStorageState = <<ssExported[1].storageState>>
        /\ \A w \in DOMAIN ssWorkers : ssWorkers[w].seed = ssExported[1]

C30_Witness ==
    /\ DOMAIN ssWorkers = {0, 1}
    /\ ssWorkers[0].pc = "open" /\ ssWorkers[1].pc = "open"
    /\ ssWorkers[0].context = {Cookie("session", 1)}
    /\ ssWorkers[1].context = ssExported[1].cookies
    /\ ssWorkers[1].seed = ssWorkers[0].seed
    /\ ssCookies = <<{Cookie("session", 0), Cookie("auth", 0)}>>

\* the IDs of the records worker w posted, in the order it posted them
PostedRecords(w) ==
    LET recs == SelectSeq(sent[w], LAMBDA m : m.type = "result")
    IN [k \in 1..Len(recs) |-> recs[k].id]

\* C31: the list a successful scrapeRange returns is the records worker 0 posted,
\* then those of worker 1, and so on, whatever the order in which the workers ended
\* and their messages were handled; its auctionIds are strictly ascending, so none
\* occurs twice.
C31_ResultOrder ==
    srState = "returned" =>
        /\ \A k \in 1..Len(results) :
              \E w \in DOMAIN jobs :
                  LET before == SumOver([v \in DOMAIN jobs |->
                                            IF v < w THEN Len(PostedRecords(v)) ELSE 0],
                                        DOMAIN jobs)
                  IN /\ k > before /\ k <= before + Len(PostedRecords(w))
                     /\ results[k] = PostedRecords(w)[k - before]
        /\ Len(results) = SumOver([v \in DOMAIN jobs |-> Len(PostedRecords(v))], DOMAIN jobs)
        /\ \A k \in 1..(Len(results) - 1) : results[k] < results[k + 1]

\* two workers posted one record each and the call returned both in index order
C31_Witness ==
    /\ srState = "returned"
    /\ DOMAIN jobs = {0, 1}
    /\ results = <<jobs[0].startId, jobs[1].startId>>

\* the bid a snapshot was taken from: the snapshot stores the effective bid and
\* whether the listing had a bid
BidSeen(snapshot) == IF snapshot.hasBids THEN snapshot.currentBid ELSE 0

\* the listings of the last pass that had a snapshot before it
SeenBefore == {id \in DOMAIN btProps : id \in DOMAIN btPrevHistory}

\* C32: for every listing of a pass that already had a snapshot, the new snapshot
\* carries change and changePercent, and the listing is counted in newChanges,
\* exactly when its current bid differs from the bid of its previous observation,
\* a listing without a bid that gets its first bid included.
C32_ChangeDetected ==
    (btProps # <<>> /\ Returned(btResult)) =>
        LET differs == {id \in SeenBefore :
                           btProps[id].currentBidNumeric # BidSeen(Last(btPrevHistory[id].history))}
        IN /\ \A id \in SeenBefore :
                 LET new == Last(bidHistory[id].history)
                 IN /\ new.change # <<>> <=> id \in differs
                    /\ IsValue(new.changePercent) <=> id \in differs
           /\ btResult.newChanges = Cardinality(differs) + Cardinality(DOMAIN btProps \ SeenBefore)

\* what the code detects: a change of the effective bid, which is the minimum bid
\* while the listing has no bid
C32_EffectiveBidChange ==
    (btProps # <<>> /\ Returned(btResult)) =>
        LET differs == {id \in SeenBefore :
                           EffectiveBid(btProps[id]) # Last(btPrevHistory[id].history).currentBid}
        IN /\ \A id \in SeenBefore :
                 LET new == Last(bidHistory[id].history)
                 IN /\ new.change # <<>> <=> id \in differs
                    /\ IsValue(new.changePercent) <=> id \in differs
           /\ btResult.newChanges = Cardinality(differs) + Cardinality(DOMAIN btProps \ SeenBefore)

\* the progress messages a worker has posted, in order
ProgressPosted == SelectSeq(wkOut, LAMBDA m : m.type = "progress")

\* C33: the progress messages of a worker carry startId, startId + 1, ... in that
\* order, one for every ID it has gone through whatever the page of the ID gave
\* (record, not found, removed, empty page, error), and all the IDs up to endId
\* once the worker has ended normally.
C33_AscendingOnce ==
    /\ Len(ProgressPosted) = wkId - wkJob.startId
    /\ \A k \in 1..Len(ProgressPosted) : ProgressPosted[k].id = wkJob.startId + k - 1
    /\ wkPc = "exited" => Len(ProgressPosted) = wkJob.endId - wkJob.startId + 1

\* a worker went through three IDs, the first failing, the second not found, the
\* third giving a record, and ended normally
C33_Witness ==
    /\ wkPc = "exited"
    /\ Len(wkPages) = 3
    /\ wkPages[1].nav = "timeout"
    /\ wkPages[2].marker
    /\ ResultMsg(wkJob.endId) \in {wkOut[k] : k \in 1..Len(wkOut)}
    /\ Len(ProgressPosted) = 3

\* C34: a worker posts the record of an ID directly before the progress message of
\* that ID; so when the coordinator has counted the progress of the first n IDs of a
\* worker, every record that worker posted for those IDs is in its result buffer.
C34_RecordBeforeProgress ==
    \A w \in DOMAIN jobs :
        /\ \A k \in 1..Len(sent[w]) :
              sent[w][k].type = "result" =>
                  /\ k < Len(sent[w])
                  /\ sent[w][k + 1] = ProgressMsg(sent[w][k].id, JobLen(w))
        /\ \A k \in 1..Len(sent[w]) :
              (sent[w][k].type = "result" /\ sent[w][k].id <= jobs[w].startId + handled[w] - 1)
                  => \E j \in 1..Len(workerResults[w]) : workerResults[w][j] = sent[w][k].id

\* the coordinator has counted the progress of the first ID of a worker, whose record
\* is in the buffer, while the record of the second ID waits in the port
C34_Witness ==
    \E w \in DOMAIN jobs :
        /\ handled[w] = 1
        /\ workerResults[w] = <<jobs[w].startId>>
        /\ port[w] # <<>> /\ Head(port[w]).type = "result"

\* the place of the iteration just ended in the worker's range, counted from 1
PlaceInRange == pzLast.id - pzJob.startId + 1

\* C35: the worker pauses after the 10th, 20th, ... ID of its range, whatever
\* the page of that ID gave, before it navigates to the next ID.
C35_PauseEveryTenth ==
    (pzLast.id # 0 /\ PlaceInRange % PauseEvery = 0) => pzLast.paused

\* the pause as the code takes it: after an ID that is a multiple of ten and
\* whose record was posted
C35_PauseAsCoded ==
    pzLast.id # 0 => (pzLast.paused <=> (pzLast.record /\ pzLast.id % PauseEvery = 0))

\* the sum of the per-worker totals of workersProgress
TotalsOf(wp) == SumOver([k \in DOMAIN wp |-> wp[k].total], DOMAIN wp)

\* C36: in every state of a ParallelAuctionScraper, second and later scrapeRange
\* calls on the same instance included, completed is at most total and the
\* per-worker totals of workersProgress add up to total.
C36_ProgressWithinTotal ==
    /\ progress.completed <= progress.total
    /\ TotalsOf(progress.workersProgress) = progress.total

\* the same during the first scrapeRange call of an instance
C36_FirstCall == runs <= 1 => C36_ProgressWithinTotal

\* the background runs that have started and have not yet reached the end of their
\* try block or their catch
RunsInProgress ==
    {r \in DOMAIN svRun :
        svRun[r].pc \in {"initializing", "login", "scraping", "savingBatch", "saving"}}

\* C37: at most one scrape run started through the server is in progress at any
\* time, and isRunning is true as long as a run is in progress.
C37_OneRunInProgress ==
    /\ Cardinality(RunsInProgress) <= 1
    /\ RunsInProgress # {} => scrapingStatus.isRunning

\* C38: every urgency tier has at most one live timer, the one of its job in
\* activeJobs, however many times scheduleUpdates has run.
C38_OneTimerPerTier ==
    /\ \A t1, t2 \in tmTimers : t1.tier = t2.tier => t1 = t2
    /\ tmTimers = {tmJobs[p] : p \in DOMAIN tmJobs}
    /\ \A p \in DOMAIN tmJobs : tmJobs[p].tier = p

\* a later scheduleUpdates call found a tier with a job and gave a job to another
C38_Witness ==
    /\ tmCalls >= 2
    /\ \E p, q \in DOMAIN tmJobs : tmJobs[p].call = 1 /\ tmJobs[q].call = tmCalls

\* no update cycle is inside recordSnapshot
NoPassInProgress == \A c \in cycles : c.pc \notin {"writingSnapshot", "writingHistory"}

\* C39: once recordSnapshot has returned its result, a BidTracker that loads
\* bid-history.json holds the snapshot sequences and the metrics the tracker has
\* in memory.
C39_RoundTrip ==
    (btCalls > 0 /\ Returned(btResult) /\ NoPassInProgress)
        => LoadBidHistory(historyFile) = bidHistory

\* the listings the last call saw for the first time
FirstSeen == DOMAIN btProps \ DOMAIN btPrevHistory

\* C40: a listing seen for the first time is counted in newChanges, its snapshot
\* has no change and no changePercent and its totalChanges stays 0; the first pass
\* of a fresh tracker returns newChanges = totalTracked.
C40_FirstObservation ==
    (btCalls > 0 /\ Returned(btResult)) =>
        /\ \A id \in FirstSeen :
              /\ Len(bidHistory[id].history) = 1
              /\ bidHistory[id].history[1].change = <<>>
              /\ ~IsValue(bidHistory[id].history[1].changePercent)
              /\ bidHistory[id].metrics.totalChanges = 0
        /\ btResult.newChanges >= Cardinality(FirstSeen)
        /\ btCalls = 1 => btResult.newChanges = btResult.totalTracked

\* the first pass of a fresh tracker has returned, over two listings
C40_Witness ==
    /\ btCalls = 1 /\ Returned(btResult)
    /\ Cardinality(FirstSeen) = 2
    /\ btResult.totalTracked = 2

Init ==
    ScrapeInit /\ WkIdle /\ PartIdle /\ TrackerIdle /\ SchedIdle /\ ServerIdle /\ PrioIdle /\ JobIdle /\ ScoreIdle /\ NormIdle /\ SessIdle /\ PzIdle /\ TmIdle

Next == ScrapeNext

Spec == Init /\ [][Next]_vars

WorkerInit ==
    WkInit /\ ScrapeIdle /\ PartIdle /\ TrackerIdle /\ SchedIdle /\ ServerIdle /\ PrioIdle /\ JobIdle /\ ScoreIdle /\ NormIdle /\ SessIdle /\ PzIdle /\ TmIdle

WorkerSpec == WorkerInit /\ [][WkNext]_vars

PartitionInit ==
    PartInit /\ ScrapeIdle /\ WkIdle /\ TrackerIdle /\ SchedIdle /\ ServerIdle /\ PrioIdle /\ JobIdle /\ ScoreIdle /\ NormIdle /\ SessIdle /\ PzIdle /\ TmIdle

PartSpec == PartitionInit /\ [][PartNext]_vars

TrackerSpecInit ==
    TrackerInit /\ ScrapeIdle /\ WkIdle /\ PartIdle /\ SchedIdle /\ ServerIdle /\ PrioIdle /\ JobIdle /\ ScoreIdle /\ NormIdle /\ SessIdle /\ PzIdle /\ TmIdle

TrackerSpec == TrackerSpecInit /\ [][TrackerNext]_vars

TrackerBidInit ==
    TrackerInit /\ ScrapeIdle /\ WkIdle /\ PartIdle /\ SchedIdle /\ ServerIdle /\ PrioIdle /\ JobIdle /\ ScoreIdle /\ NormIdle /\ SessIdle /\ PzIdle /\ TmIdle

TrackerBidSpec == TrackerBidInit /\ [][TrackerBidNext]_vars

TrackerIoInit ==
    TrackerInit /\ ScrapeIdle /\ WkIdle /\ PartIdle /\ SchedIdle /\ ServerIdle /\ PrioIdle /\ JobIdle /\ ScoreIdle /\ NormIdle /\ SessIdle /\ PzIdle /\ TmIdle

TrackerIoSpec == TrackerIoInit /\ [][TrackerIoNext]_vars

SchedSpecInit ==
    SchedInit /\ TrackerInit /\ ScrapeIdle /\ WkIdle /\ PartIdle /\ ServerIdle /\ PrioIdle /\ JobIdle /\ ScoreIdle /\ NormIdle /\ SessIdle /\ PzIdle /\ TmIdle

SchedSpec == SchedSpecInit /\ [][SchedNext]_vars

SchedFairSpec == SchedSpec /\ SchedFairness

ServerSpecInit ==
    ServerInit /\ ScrapeIdle /\ WkIdle /\ PartIdle /\ TrackerIdle /\ SchedIdle /\ PrioIdle /\ JobIdle /\ ScoreIdle /\ NormIdle /\ SessIdle /\ PzIdle /\ TmIdle

ServerSpec == ServerSpecInit /\ [][ServerNext]_vars

PrioSpecInit ==
    PrioInit /\ ScrapeIdle /\ WkIdle /\ PartIdle /\ TrackerIdle /\ SchedIdle /\ ServerIdle /\ JobIdle /\ ScoreIdle /\ NormIdle /\ SessIdle /\ PzIdle /\ TmIdle

PrioSpec == PrioSpecInit /\ [][PrioNext]_vars

JobSpecInit ==
    JobInit /\ ScrapeIdle /\ WkIdle /\ PartIdle /\ TrackerIdle /\ SchedIdle /\ ServerIdle /\ PrioIdle /\ ScoreIdle /\ NormIdle /\ SessIdle /\ PzIdle /\ TmIdle

JobSpec == JobSpecInit /\ [][JobNext]_vars

ScoreSpecInit ==
    ScoreInit /\ ScrapeIdle /\ WkIdle /\ PartIdle /\ TrackerIdle /\ SchedIdle /\ ServerIdle /\ PrioIdle /\ JobIdle /\ NormIdle /\ SessIdle /\ PzIdle /\ TmIdle

ScoreSpec == ScoreSpecInit /\ [][ScoreNext]_vars

NormSpecInit ==
    NormInit /\ ScrapeIdle /\ WkIdle /\ PartIdle /\ TrackerIdle /\ SchedIdle /\ ServerIdle /\ PrioIdle /\ JobIdle /\ ScoreIdle /\ SessIdle /\ PzIdle /\ TmIdle

NormSpec == NormSpecInit /\ [][NormNext]_vars

SessSpecInit ==
    SessInit /\ ScrapeIdle /\ WkIdle /\ PartIdle /\ TrackerIdle /\ SchedIdle /\ ServerIdle /\ PrioIdle /\ JobIdle /\ ScoreIdle /\ NormIdle /\ PzIdle /\ TmIdle

SessSpec == SessSpecInit /\ [][SessNext]_vars

PaceSpecInit ==
    PzInit /\ ScrapeIdle /\ WkIdle /\ PartIdle /\ TrackerIdle /\ SchedIdle /\ ServerIdle /\ PrioIdle /\ JobIdle /\ ScoreIdle /\ NormIdle /\ SessIdle /\ TmIdle

PaceSpec == PaceSpecInit /\ [][PaceNext]_vars

ServerRaceSpecInit ==
    ServerRaceInit /\ ScrapeIdle /\ WkIdle /\ PartIdle /\ TrackerIdle /\ SchedIdle /\ PrioIdle /\ JobIdle /\ ScoreIdle /\ NormIdle /\ SessIdle /\ PzIdle /\ TmIdle

ServerRaceSpec == ServerRaceSpecInit /\ [][ServerRaceNext]_vars

TimerSpecInit ==
    TmInit /\ ScrapeIdle /\ WkIdle /\ PartIdle /\ TrackerIdle /\ SchedIdle /\ ServerIdle /\ PrioIdle /\ JobIdle /\ ScoreIdle /\ NormIdle /\ SessIdle /\ PzIdle

TimerSpec == TimerSpecInit /\ [][TimerNext]_vars

====
